---- MODULE Spec2Model ----
(***************************************************************************)
(* Reactive core of tanni-js (signals, memos, effects, batch, untrack,     *)
(* onCleanup) together with the conditional-chain effect that the code     *)
(* generator emits for tn-if / tn-else-if / tn-else.                       *)
(*                                                                         *)
(* The library is synchronous and re-entrant: a write calls                *)
(* notifySubscribers, which calls execute, which runs a user body, which   *)
(* may read, register cleanups, throw ...  The model keeps the JavaScript  *)
(* call stack explicitly (variable stack) and takes one step per library   *)
(* call or body statement.  User code at top level acts only when the      *)
(* call stack is empty.                                                    *)
(***************************************************************************)
EXTENDS Integers, Sequences, FiniteSets, TLC

\* ------------------------------------------------------------------ bounds
MaxVal == 2        \* signal values are 0..MaxVal
MaxDepth == 2      \* nesting of batch() calls made by the top-level code
MaxLog == 6        \* executions recorded per top-level call
MaxSiblings == 3   \* children of the root of a compiled template
MaxNodes == 6      \* children of the host beyond which the client stops writing
MaxTokens == 4     \* tags, texts and comments of a parsed template
MaxAttrs == 3      \* raw attributes of a transformed element
MaxInner == 3      \* effects created by the runs of an effect's body
MaxRuns == 3       \* executions of one computation nested in each other

\* ------------------------------------------------------- client programs
\* The computations a client program may create.  Bodies are given below as
\* straight-line code over the library's API.
Signals == {"s", "t"}
Memos == {"a", "b", "m", "n"}
ChainEffects == {"c", "k"}
ForEffects == {"l"}
InsertEffects == {"i", "j"}
\* the effects created by the createEffect call inside the body of o, one per
\* run of that body, in order of creation
InnerNames == << "q1", "q2", "q3", "q4", "q5", "q6" >>
InnerEffects == { InnerNames[n] : n \in 1..MaxInner }
Effects == {"d", "e", "f", "g", "h", "w", "p", "r", "x", "y", "z", "o", "u"} \cup ChainEffects
             \cup ForEffects \cup InsertEffects \cup InnerEffects
Comps == Memos \cup Effects
Sources == Signals \cup Memos
NoComp == "none"
Undefined == -1

Ins(op, x, n) == [op |-> op, x |-> x, n |-> n]

\* The tn-if chains of the template: the source read by the condition of each
\* tn-if / tn-else-if branch, in sibling order, and whether a tn-else ends it.
\*   c:  <p tn-if="s()"> <p tn-else-if="t()"> <p tn-else>
\*   k:  <p tn-if="s()">
Chain(c) ==
  CASE c = "c" -> [conds |-> << "s", "t" >>, else |-> TRUE]
    [] c = "k" -> [conds |-> << "s" >>, else |-> FALSE]

\* emitConditionalChain: the body of the effect emitted for a chain.  Branch i
\* with a condition occupies statements 4i-2 .. 4i+1:
\*   if (cond_i) {  render branch i  }  else ...
\* and a tn-else branch is one more render; falling off the end leaves the
\* effect.
RECURSIVE emitBranches(_, _)
emitBranches(ch, i) ==
  IF i > Len(ch.conds)
  THEN IF ch.else THEN << Ins("domRender", "", i) >> ELSE << >>
  ELSE << Ins("read", ch.conds[i], 0), Ins("jz", "", 4 * i + 2),
          Ins("domRender", "", i),
          Ins("jmp", "", 4 * Len(ch.conds) + 2 + (IF ch.else THEN 1 ELSE 0)) >>
       \o emitBranches(ch, i + 1)
emitConditionalChain(ch) == << Ins("domClear", "", 0) >> \o emitBranches(ch, 1)

\* emitForNode: the body of the effect emitted for  tn-for="item, index in
\* LISTS[s()]":  remove the previous nodes; forList = LISTS[s()] ?? []; render
emitForNode ==
  << Ins("forClear", "", 0), Ins("read", "s", 0), Ins("forRender", "", 0) >>

\* Body of each computation, one record per statement.
\*   read x        x()                      (tracked unless inside untrack)
\*   clamp         acc = Math.min(acc, 1)
\*   jz n          if the value just read is falsy, go to statement n
\*   jmp n         go to statement n
\*   untrack / enduntrack   untrack(() => { ... })
\*   onCleanup n   onCleanup(cleanup_n)
\*   write x n     setX(n)
\*   writeNext x   setX((v + 1) % (MaxVal + 1)), v the value just read
\*   throw         throw new Error(...)
\*   createEffect x   createEffect(() => { x() })
\*   domClear / domRender n  statements of the generated chain effect
\*   forClear / forRender    statements of the generated tn-for effect
\*   replaceNodes            currentNodes = replaceNodes(parent, currentNodes,
\*                           normalizeNodes(resolved), marker)  of insert
Bodies ==
  [c \in Comps |->
  CASE c = "a" -> << Ins("read", "s", 0), Ins("clamp", "", 0) >>
    [] c = "b" -> << Ins("read", "s", 0) >>
    [] c = "m" -> << Ins("read", "a", 0), Ins("read", "s", 0) >>
    [] c = "d" -> << Ins("read", "s", 0), Ins("read", "a", 0) >>
    [] c = "e" -> << Ins("read", "a", 0), Ins("read", "b", 0) >>
    [] c = "f" -> << Ins("untrack", "", 0), Ins("read", "t", 0),
                     Ins("enduntrack", "", 0), Ins("onCleanup", "", 1),
                     Ins("read", "s", 0), Ins("onCleanup", "", 2) >>
    [] c = "g" -> << Ins("read", "s", 0), Ins("jz", "", 4),
                     Ins("read", "t", 0) >>
    [] c = "h" -> << Ins("read", "s", 0), Ins("onCleanup", "", 1),
                     Ins("jz", "", 7), Ins("untrack", "", 0),
                     Ins("onCleanup", "", 2), Ins("enduntrack", "", 0) >>
    [] c = "w" -> << Ins("read", "s", 0), Ins("write", "s", 1),
                     Ins("onCleanup", "", 1) >>
    [] c = "p" -> << Ins("read", "t", 0), Ins("write", "s", 1) >>
    [] c = "r" -> << Ins("read", "s", 0), Ins("jz", "", 4), Ins("jmp", "", 6),
                     Ins("read", "t", 0), Ins("write", "s", 1) >>
    [] c = "n" -> << Ins("read", "s", 0), Ins("jz", "", 4), Ins("throw", "", 0) >>
    [] c = "x" -> << Ins("read", "s", 0), Ins("jz", "", 4), Ins("throw", "", 0) >>
    [] c = "y" -> << Ins("read", "s", 0) >>
    [] c = "z" -> << Ins("read", "n", 0) >>
    [] c = "u" -> << Ins("read", "s", 0), Ins("writeNext", "s", 0) >>
    [] c = "o" -> << Ins("read", "s", 0), Ins("createEffect", "t", 0) >>
    [] c \in InnerEffects -> << Ins("read", "t", 0) >>
    [] c \in ChainEffects -> emitConditionalChain(Chain(c))
    [] c \in ForEffects -> emitForNode
    [] c \in InsertEffects -> << Ins("read", "s", 0), Ins("replaceNodes", "", 0) >> ]
Body(c) == Bodies[c]

\* The programs explored: each is the set of computations the top-level code
\* creates (in any order that respects the uses of memos).
Programs == { {"a", "b", "e"}, {"a", "d"}, {"a", "m"}, {"f", "h"}, {"f", "g"},
              {"a", "w"} }
\* The program of a compiled template with two chains under one parent.
DomPrograms == { {"c", "k"} }
\* A compiled tn-for element; insert(host, accessor, marker) between two
\* static children; insert(host, accessor) without marker.
ListPrograms == { {"l"}, {"i"}, {"j"} }
\* An effect of t that writes s, beside a conditional reader of s and t; an
\* effect that, while s is falsy, reads t and sets s.
SubPrograms == { {"p", "g"}, {"r"} }
\* Bodies that throw while s is truthy: an effect beside another subscriber
\* of s, a memo read by an effect, an effect run by the write of another
\* effect, and an effect that calls onCleanup inside untrack beside one that
\* reads inside untrack, and an effect beside a conditional reader.
ErrPrograms == { {"x", "y"}, {"n", "z"}, {"p", "x"}, {"f", "h"}, {"g", "x"} }
\* An effect of s whose body creates an effect of t, as the code generated
\* for a binding inside a tn-if branch or a tn-for item does.
NestPrograms == { {"o"} }
\* Programs whose bodies write no signal, and an effect that on each run
\* sets the signal it reads to a value it does not hold.
TermPrograms == { {"a", "d"}, {"g", "y"}, {"u"} }

Range(q) == { q[i] : i \in 1..Len(q) }

\* signals a program reads
Used(p) == UNION { { Body(c)[i].x : i \in 1..Len(Body(c)) } : c \in p } \cap Signals

\* computations whose body creates an effect
Creators == { c \in Comps : \E i \in 1..Len(Body(c)) : Body(c)[i].op = "createEffect" }

\* memos read by the body of c (they must exist before c is created)
Needs(c) == { Body(c)[i].x : i \in 1..Len(Body(c)) } \cap Memos

\* --------------------------------------------------------------- the state
VARIABLES
  prog,                 \* the client program of this run
  created,              \* computations created so far
  value,                \* Signal.value / Memo.value
  subscribers,          \* Source.subscribers (a Set iterates in insertion order)
  deps,                 \* Computation.deps
  cleanups,             \* Computation.cleanups
  pendingComputations,  \* module-level Set
  batchDepth,           \* module-level counter
  currentComputation,   \* module-level pointer
  stack,                \* call stack of library frames
  exc,                  \* an exception is propagating
  dom,                  \* children of the parent node of the chains
  ifNodes,              \* closure variable of each generated chain effect
  gen,                  \* allocation counter of each effect (fresh nodes)
  forNodes,             \* closure variable of each generated tn-for effect
  currentNodes,         \* closure variable of the effect of each insert()
  scope,                \* item / index aliases bound for each rendered node
  obs,                  \* observations of the current top-level call
  \* the compiler, one call of generate
  template,             \* root.children of the tree handed to generate
  work,                 \* active calls of emitChildren / emitConditionalChain
  lines,                \* context.lines, one record per emitted construct
  cerr,                 \* the directive named by the Error thrown, or ""
  returned,             \* generate has returned { code }
  \* the parser, one call of parseTemplate
  templateSource,       \* the input, as its tags, texts and comments
  index,                \* the token the scan is at
  tagStack,             \* stack: the open elements, innermost last
  root,                 \* the nodes appended so far, each with its parent
  perr,                 \* the Error thrown
  parsed,               \* parseTemplate has returned root
  \* the event bridge of the runtime
  delegatedEvents,      \* module-level Set of delegated event names
  listeningEvents,      \* module-level Set: the document listens for them
  tnDelegatedHandlers,  \* element.__tnDelegatedHandlers[name]
  directListeners,      \* module-level WeakMap: element -> name -> handler
  eventListeners,       \* the listener list the DOM keeps per element, type
  event,                \* the event being dispatched, or the last one
  lastDirect,           \* last function spread under a direct event key
  \* one call of a compiled component whose script declares prop defaults
  incomingProps,        \* __props, the object the caller passed
  defaults,             \* the object literal given to defineProps
  props,                \* const props = Object.create(defaults, ...)
  count,                \* the signal read by the caller's :value binding
  propsRead,            \* the last read of a key of props by the script
  \* one call of transformNode on an element
  tf                    \* node.attrs, the loop position and the four outputs

lib == << value, subscribers, deps, cleanups, pendingComputations,
          batchDepth, currentComputation >>
listv == << forNodes, currentNodes, scope >>
domv == << dom, ifNodes, gen, listv >>
core == << prog, created, lib, stack, exc, domv, obs >>
cgv == << template, work, lines, cerr, returned >>
\* the state outside the reactive core
parsev == << templateSource, index, tagStack, root, perr, parsed >>
evv == << delegatedEvents, listeningEvents, tnDelegatedHandlers,
         directListeners, eventListeners, event, lastDirect >>
propsv == << incomingProps, defaults, props, count, propsRead >>
aux == << cgv, parsev, evv, propsv, tf >>
vars == << core, aux >>

\* ------------------------------------------------- JavaScript primitives
\* Set.prototype.add on an insertion-ordered Set
SetAdd(q, x) == IF x \in Range(q) THEN q ELSE Append(q, x)
\* Set.prototype.delete
SetDelete(q, x) == SelectSeq(q, LAMBDA y : y # x)
\* mutant: every written value counts as the present one
ObjectIs_always(x, y) == TRUE
\* Object.is on the values of the model (integers)
ObjectIs(x, y) == x = y
\* Array.from(set): the snapshot iterated by notifySubscribers / flushPending
ArrayFrom(q) == q

Min(x, y) == IF x < y THEN x ELSE y
Count(q, x) == Cardinality({ i \in 1..Len(q) : q[i] = x })

\* ------------------------------------------------------------ call stack
\* One record per active library call:
\*   exec    Memo.execute / the execute closure of createEffect, at statement
\*           pc of the body; prev is its local `previous`; fin holds the
\*           `previous` locals of the untrack calls open inside the body;
\*           old records that a later execution of the same computation
\*           has started while this one is still running
\*   notify  notifySubscribers, about to visit queue[i]
\*   flush   flushPending, about to visit queue[i]
Frame(kind, comp, prev, queue) ==
  [kind |-> kind, comp |-> comp, pc |-> 1, acc |-> 0, last |-> 0,
   prev |-> prev, fin |-> << >>, queue |-> queue, i |-> 1, old |-> FALSE,
   src |-> NoComp, reads |-> {}]

\* notifySubscribers(source), entered:  queue = Array.from(source.subscribers)
notifySubscribers(x) ==
  [Frame("notify", NoComp, NoComp, ArrayFrom(subscribers[x])) EXCEPT !.src = x]

\* mutant: the loop walks the live Set, which also yields the entries added
\* while it runs
visited_live(f) ==
  f.queue \o SelectSeq(subscribers[f.src], LAMBDA c : c \notin Range(f.queue))
\* notifySubscribers:  for (const subscriber of queue)
visited(f) == f.queue

Top == stack[Len(stack)]
Pop(st) == SubSeq(st, 1, Len(st) - 1)
SetTop(st, f) == [st EXCEPT ![Len(st)] = f]
Running == stack # << >> /\ ~exc
InBody == Running /\ Top.kind = "exec" /\ Top.pc <= Len(Body(Top.comp))
Cur == Body(Top.comp)[Top.pc]
Idle == stack = << >> /\ ~exc

\* The value the function of memo x returns on the current values of the
\* sources it reads (a pure run of its body).
RECURSIVE EvalBody(_, _, _, _)
EvalBody(c, pc, acc, last) ==
  IF pc > Len(Body(c)) THEN acc
  ELSE LET ins == Body(c)[pc] IN
       CASE ins.op = "read" -> EvalBody(c, pc + 1, acc + value[ins.x], value[ins.x])
         [] ins.op = "clamp" -> EvalBody(c, pc + 1, Min(acc, 1), last)
         [] ins.op = "jz" -> EvalBody(c, IF last = 0 THEN ins.n ELSE pc + 1, acc, last)
         [] ins.op = "jmp" -> EvalBody(c, ins.n, acc, last)
         [] OTHER -> EvalBody(c, pc + 1, acc, last)
Fn(x) == EvalBody(x, 1, 0, 0)

\* ------------------------------------------------------------------- DOM
Node(chain, branch, g) == [chain |-> chain, branch |-> branch, g |-> g]
Static == Node("", -1, 0)
Marker(c) == Node(c, 0, 0)
\* mutant: the previous nodes are left in the parent
removeNodes_none(children, nodes) == children
\* parent.removeChild(n) guarded by n.parentNode === parent, for n of nodes
removeNodes(children, nodes) ==
  SelectSeq(children, LAMBDA n : n \notin Range(nodes))
IndexOf(q, x) == CHOOSE i \in 1..Len(q) : q[i] = x
\* mutant: parent.append(n)
insertBefore_append(children, n, marker) == Append(children, n)
\* marker = null
NoMarker == Node("null", 0, 0)
\* a DocumentFragment made by an insert accessor, and its two children
DocumentFragment(c, g) == Node(c, 3, g)
isFragment(n) == n.chain \in InsertEffects /\ n.branch = 3
childNodes(n) == << Node(n.chain, 4, n.g), Node(n.chain, 5, n.g) >>
\* parent.insertBefore(n, marker): n goes before marker, at the end when
\* marker is null; of a DocumentFragment the children go in its place
insertBefore(children, n, marker) ==
  LET k == IF marker = NoMarker THEN Len(children) + 1
           ELSE IndexOf(children, marker) IN
  SubSeq(children, 1, k - 1) \o (IF isFragment(n) THEN childNodes(n) ELSE << n >>)
    \o SubSeq(children, k, Len(children))
\* for (const node of nodes) parent.insertBefore(node, marker)
RECURSIVE insertEach(_, _, _)
insertEach(children, nodes, marker) ==
  IF nodes = << >> THEN children
  ELSE insertEach(insertBefore(children, Head(nodes), marker), Tail(nodes), marker)

\* the host of insert(host, accessor, marker) in program i: a static child,
\* the marker, a static child; in program j: a static child and no marker
Suffix == Node("", -2, 0)
hostSetup(c) == IF c = "i" THEN << Marker(c), Suffix >> ELSE << >>
insertMarker(c) == IF c = "i" THEN Marker(c) ELSE NoMarker

\* the list expression of the tn-for element, LISTS[s()]
ListExpr(v) ==
  CASE v = 0 -> [null |-> TRUE, items |-> << >>]
    [] v = 1 -> [null |-> FALSE, items |-> << "y", "x" >>]
    [] v = 2 -> [null |-> FALSE, items |-> << "x" >>]
    [] OTHER -> [null |-> FALSE, items |-> << >>]
\* generated tn-for effect:  const forList = <list expression> ?? []
forList(l) == IF l.null THEN << >> ELSE l.items
\* generated tn-for effect, loop: the element rendered for each __i, and the
\* aliases  const item = forList[__i]; const index = __i  it is built under
loopNodes(c, items, g) == [n \in 1..Len(items) |-> Node(c, n, g)]
loopScope(c, items, g) ==
  { [node |-> Node(c, n, g), item |-> items[n], index |-> n - 1] : n \in 1..Len(items) }

\* the values the accessors of the insert() calls return, by the value of s
InsertValue(kind, items) == [kind |-> kind, items |-> items]
InsertExpr(c, v) ==
  IF c = "i"
  THEN CASE v = 0 -> InsertValue("null", << >>)
         [] v = 1 -> InsertValue("string", << >>)
         [] v = 2 -> InsertValue("array",
                       << InsertValue("string", << >>),
                          InsertValue("array", << InsertValue("node", << >>) >>) >>)
         [] OTHER -> InsertValue("boolean", << >>)
  ELSE CASE v = 0 -> InsertValue("null", << >>)
         [] v = 1 -> InsertValue("node", << >>)
         [] v = 2 -> InsertValue("fragment", << >>)
         [] OTHER -> InsertValue("string", << >>)
\* normalizeNodes(value), the nodes it creates being those of allocation g
RECURSIVE normalizeNodes(_, _, _)
RECURSIVE flatMap(_, _, _)
normalizeNodes(c, v, g) ==
  CASE v.kind \in {"null", "boolean"} -> << >>
    [] v.kind = "array" -> flatMap(c, v.items, g)
    [] v.kind = "node" -> << Node(c, 2, g) >>
    [] v.kind = "fragment" -> << DocumentFragment(c, g) >>
    [] OTHER -> << Node(c, 1, g) >>
flatMap(c, entries, g) ==
  IF entries = << >> THEN << >>
  ELSE normalizeNodes(c, Head(entries), g) \o flatMap(c, Tail(entries), g)
\* replaceNodes(parent, currentNodes, nextNodes, marker): the children of
\* parent afterwards (it returns nextNodes)
replaceNodes(children, current, next, marker) ==
  insertEach(removeNodes(children, current), next, marker)

\* ----------------------------------------------------------- observation
ObsStart(op, src, snap) ==
  [obs EXCEPT !.op = op, !.src = src, !.log = << >>, !.snap = snap,
              !.pre = value, !.prePending = pendingComputations,
              !.preCleanups = cleanups, !.threw = FALSE, !.stale = {},
              !.wrote = FALSE, !.same = FALSE, !.flushed = << >>,
              !.spurious = {}, !.depth0 = batchDepth,
              !.inner0 = Cardinality(created \cap InnerEffects)]

\* no compilation is under way
CompilerIdle ==
  /\ template = << >>
  /\ work = << >>
  /\ lines = << >>
  /\ cerr = ""
  /\ returned = FALSE

NoError == [kind |-> "", tag |-> ""]
\* parseTemplate is not running
ParserIdle ==
  /\ templateSource = << >>
  /\ index = 1
  /\ tagStack = << >>
  /\ root = << >>
  /\ perr = NoError
  /\ parsed = FALSE

\* the elements spread() is applied to, button inside parent, and the event
\* names used
SpreadElements == {"button", "parent"}
EventNames == {"click", "mouseover"}
NoHandler == "none"
NoEvent == [type |-> "", target |-> "", node |-> "", phase |-> "idle",
            cancelBubble |-> FALSE, reached |-> FALSE, calls |-> << >>]
\* the state of the event bridge when the module is loaded
EventsInit ==
  /\ delegatedEvents = {}
  /\ listeningEvents = {}
  /\ tnDelegatedHandlers = [e \in SpreadElements |-> [n \in EventNames |-> NoHandler]]
  /\ directListeners = [e \in SpreadElements |-> [n \in EventNames |-> NoHandler]]
  /\ eventListeners = [e \in SpreadElements |-> [n \in EventNames |-> << >>]]
  /\ event = NoEvent
  /\ lastDirect = [e \in SpreadElements |-> [n \in EventNames |-> NoHandler]]

\* the keys a component's props object may carry
PropKeys == {"value", "label"}
Null == -2
\* an entry of an object: no own property, a data property, or an accessor
\* property whose getter is  get "value"() { return count(); }
Absent == [kind |-> "absent", v |-> Undefined]
Data(v) == [kind |-> "data", v |-> v]
Getter == [kind |-> "get", v |-> Undefined]
NoObject == [k \in PropKeys |-> Absent]
NoView == [proto |-> NoObject, own |-> << >>]
NoRead == [key |-> "", value |-> Undefined, count |-> 0]
\* DirectiveMap without entries; transformNode not called
NoDirective == ""
TransformIdle ==
  tf = [attrs |-> << >>, i |-> 1, directives |-> [if |-> NoDirective, for |-> NoDirective],
        attributes |-> << >>, bindings |-> << >>, events |-> << >>,
        err |-> "", returned |-> FALSE]

\* no component has been called
PropsIdle ==
  /\ incomingProps = NoObject
  /\ defaults = NoObject
  /\ props = NoView
  /\ count = 0
  /\ propsRead = NoRead
  /\ TransformIdle

CoreInit(programs) ==
  /\ prog \in programs
  /\ created = {}
  /\ value = [x \in Sources |-> IF x \in Signals THEN 0 ELSE Undefined]
  /\ subscribers = [x \in Sources |-> << >>]
  /\ deps = [c \in Comps |-> << >>]
  /\ cleanups = [c \in Comps |-> << >>]
  /\ pendingComputations = << >>
  /\ batchDepth = 0
  /\ currentComputation = NoComp
  /\ stack = << >>
  /\ exc = FALSE
  /\ dom = << Static >>
  /\ ifNodes = [c \in ChainEffects |-> << >>]
  /\ gen = [c \in ChainEffects \cup ForEffects \cup InsertEffects |-> 0]
  /\ forNodes = [c \in ForEffects |-> << >>]
  /\ currentNodes = [c \in InsertEffects |-> << >>]
  /\ scope = {}
  /\ obs = [op |-> "init", src |-> "", log |-> << >>, snap |-> << >>,
            pre |-> [x \in Sources |-> IF x \in Signals THEN 0 ELSE Undefined],
            prePending |-> << >>,
            preCleanups |-> [c \in Comps |-> << >>],
            threw |-> FALSE, failed |-> FALSE, wrote |-> FALSE, same |-> FALSE,
            late |-> {}, open |-> 0, flushed |-> << >>, inner0 |-> 0,
            stale |-> {}, spurious |-> {}, depth0 |-> 0,
            regs |-> [c \in Comps |-> << >>],
            regsPrev |-> [c \in Comps |-> << >>],
            ranNow |-> [c \in Comps |-> << >>],
            seen |-> [c \in Comps |-> << >>]]

InitOf(programs) ==
  CoreInit(programs) /\ CompilerIdle /\ ParserIdle /\ EventsInit /\ PropsIdle

\* ------------------------------------------------------- library helpers
Log(o, c) == IF Len(o.log) < MaxLog THEN [o EXCEPT !.log = Append(@, c)] ELSE o

\* mutant: a read registers nothing
trackDependency_none(cur) == {}
\* trackDependency: the subscriber a read registers, if any
trackDependency(cur) == IF cur = NoComp THEN {} ELSE {cur}

\* mutant: the computation stays subscribed to its previous dependencies
unsubscribed_none(c) == subscribers
\* cleanupComputation, first loop: source.subscribers.delete(computation)
unsubscribed(c) ==
  [x \in Sources |-> IF x \in Range(deps[c]) THEN SetDelete(subscribers[x], c)
                                              ELSE subscribers[x]]
\* mutant: the callbacks are invoked last-registered first
cleanupCalls_reversed(c) == [i \in 1..Len(cleanups[c]) |-> cleanups[c][Len(cleanups[c]) + 1 - i]]
\* mutant: the dependency set is kept
depsCleared_kept(c) == deps[c]
\* cleanupComputation: computation.deps.clear()
depsCleared(c) == << >>
\* cleanupComputation, second loop: the callbacks invoked, in order
cleanupCalls(c) == cleanups[c]
\* cleanupComputation: computation.cleanups = []
cleanupsLeft(c) == << >>

\* the executions of c under way in call stack st
Runs(st, c) == Cardinality({ n \in 1..Len(st) : st[n].kind = "exec" /\ st[n].comp = c })

\* mutant: runComputation ignores batchDepth
deferred_never(depth) == FALSE
\* runComputation: true when the computation is put in pendingComputations
deferred(depth) == depth > 0

\* mutant: batch never flushes
flushesAt_never(depth) == FALSE
\* batch, finally block: true when flushPending is called
flushesAt(depth) == depth = 0

\* mutant: untrack leaves the pointer in place
untrackPointer_keep(cur) == cur
\* untrack: the pointer installed while fn runs, and the one put back
untrackPointer(cur) == NoComp
untrackRestore(previous, cur) == previous

\* mutant: the set is not cleared when the snapshot is taken
pendingCleared_kept(pending) == pending
\* flushPending: pendingComputations.clear()
pendingCleared(pending) == << >>

\* mutant: batch leaves the counter as it is
leaveBatch_same(depth) == depth
\* batch, finally:  batchDepth -= 1
leaveBatch(depth) == depth - 1

\* mutant: execute without its finally block
restorePrevious_none(previous, cur) == cur
\* execute:  finally { currentComputation = previous }
restorePrevious(previous, cur) == previous

\* mutant: onCleanup without its guard
onCleanupThrows_never(cur) == FALSE
\* onCleanup: the guard that throws
onCleanupThrows(cur) == cur = NoComp

\* every tracked read of the last run of c still has the value it had then
Unchanged(c) == \A i \in 1..Len(obs.seen[c]) : value[obs.seen[c][i][1]] = obs.seen[c][i][2]

\* execute(), up to the call of the body: cleanupComputation(c), then
\* previous = currentComputation; currentComputation = c.  st and o are the
\* caller's stack and observation.
BeginExecute(c, st, o) ==
  /\ Runs(st, c) < MaxRuns
  /\ subscribers' = unsubscribed(c)
  /\ deps' = [deps EXCEPT ![c] = depsCleared(c)]
  /\ cleanups' = [cleanups EXCEPT ![c] = cleanupsLeft(c)]
  /\ currentComputation' = c
  /\ stack' = Append([i \in 1..Len(st) |->
                        IF st[i].kind = "exec" /\ st[i].comp = c
                        THEN [st[i] EXCEPT !.old = TRUE] ELSE st[i]],
                     Frame("exec", c, currentComputation, << >>))
  /\ obs' = [Log(o, c) EXCEPT
               !.regsPrev[c] = o.regs[c],
               !.regs[c] = << >>,
               !.ranNow[c] = cleanupCalls(c),
               !.seen[c] = << >>,
               !.spurious = IF c \in Memos /\ o.op # "create" /\ Unchanged(c)
                            THEN @ \cup {c} ELSE @]

\* ------------------------------------------------------ top-level actions
\* setter(v) -> Signal.write(v), called by the top-level code
Write(x, v) ==
  /\ Idle
  /\ created # {}
  /\ x \in Used(prog)
  /\ Len(dom) <= MaxNodes
  /\ (\E c \in Creators : x \in Range(deps[c]))
       => Cardinality(created \cap InnerEffects) < MaxInner
  /\ IF ObjectIs(value[x], v)
     THEN /\ obs' = [ObsStart("write", x, << >>) EXCEPT !.same = TRUE]
          /\ UNCHANGED << lib, stack >>
     ELSE /\ value' = [value EXCEPT ![x] = v]
          /\ stack' = << notifySubscribers(x) >>
          /\ obs' = ObsStart("write", x, ArrayFrom(subscribers[x]))
          /\ UNCHANGED << subscribers, deps, cleanups, pendingComputations,
                          batchDepth, currentComputation >>
  /\ UNCHANGED << aux, prog, created, exc, domv >>

\* createEffect(fn) / createMemo(fn): build the computation and execute it.
\* For a chain effect this is the generated sequence
\*   parent.append(marker); let ifNodes = []; createEffect(...)
Create(c) ==
  /\ Idle
  /\ c \in prog \ created
  /\ Needs(c) \subseteq created
  /\ created' = created \cup {c}
  /\ BeginExecute(c, stack, ObsStart("create", c, << >>))
  /\ IF c \in ChainEffects
     THEN /\ dom' = Append(dom, Marker(c))
          /\ ifNodes' = [ifNodes EXCEPT ![c] = << >>]
          /\ UNCHANGED << gen, listv >>
     ELSE IF c \in ForEffects
     THEN /\ dom' = Append(dom, Marker(c))
          /\ forNodes' = [forNodes EXCEPT ![c] = << >>]
          /\ UNCHANGED << ifNodes, gen, currentNodes, scope >>
     ELSE IF c \in InsertEffects
     THEN /\ dom' = dom \o hostSetup(c)
          /\ currentNodes' = [currentNodes EXCEPT ![c] = << >>]
          /\ UNCHANGED << ifNodes, gen, forNodes, scope >>
     ELSE UNCHANGED domv
  /\ UNCHANGED << aux, prog, value, pendingComputations, batchDepth, exc >>

\* batch(fn), up to the call of fn
BatchEnter ==
  /\ Idle
  /\ created # {}
  /\ batchDepth < MaxDepth
  /\ batchDepth' = batchDepth + 1
  /\ obs' = [ObsStart("batchEnter", "", << >>) EXCEPT !.open = @ + 1]
  /\ UNCHANGED << aux, prog, created, value, subscribers, deps, cleanups,
                  pendingComputations, currentComputation, stack, exc, domv >>

\* batch(fn), finally block (fn returned or threw): batchDepth -= 1 and, at
\* depth 0, flushPending(), which returns at once on an empty set
BatchExit ==
  /\ Idle
  /\ obs.open > 0
  /\ batchDepth' = leaveBatch(batchDepth)
  /\ obs' = [ObsStart("batchExit", "", << >>) EXCEPT !.depth0 = batchDepth - 1,
                                                     !.open = @ - 1]
  /\ IF flushesAt(leaveBatch(batchDepth)) /\ pendingComputations # << >>
     THEN /\ stack' = << Frame("flush", NoComp, NoComp, ArrayFrom(pendingComputations)) >>
          /\ pendingComputations' = pendingCleared(pendingComputations)
     ELSE UNCHANGED << stack, pendingComputations >>
  /\ UNCHANGED << aux, prog, created, value, subscribers, deps, cleanups,
                  currentComputation, exc, domv >>

\* onCleanup(fn) called by the top-level code
OnCleanupTop ==
  /\ Idle
  /\ created # {}
  /\ obs' = ObsStart("onCleanup", "", << >>)
  /\ IF onCleanupThrows(currentComputation)
     THEN exc' = TRUE /\ UNCHANGED cleanups
     ELSE exc' = FALSE
          /\ cleanups' = [c \in Comps |-> IF c = currentComputation
                                          THEN Append(cleanups[c], 9) ELSE cleanups[c]]
  /\ UNCHANGED << aux, prog, created, value, subscribers, deps, pendingComputations,
                  batchDepth, currentComputation, stack, domv >>

\* ------------------------------------------------- steps inside the library
\* notifySubscribers: one iteration of  for (const subscriber of queue)
\* runComputation(subscriber), or the return after the last one
NotifyStep ==
  /\ Running /\ Top.kind = "notify"
  /\ IF Top.i > Len(visited(Top))
     THEN /\ stack' = Pop(stack)
          /\ UNCHANGED << lib, obs >>
     ELSE LET c == visited(Top)[Top.i]
              st == SetTop(stack, [Top EXCEPT !.i = @ + 1]) IN
          IF deferred(batchDepth)
          THEN /\ pendingComputations' = SetAdd(pendingComputations, c)
               /\ stack' = st
               /\ UNCHANGED << value, subscribers, deps, cleanups, batchDepth,
                               currentComputation, obs >>
          ELSE /\ BeginExecute(c, st, obs)
               /\ UNCHANGED << value, pendingComputations, batchDepth >>
  /\ UNCHANGED << aux, prog, created, exc, domv >>

\* flushPending: one iteration of  for (const computation of queue)
\* computation.execute(), or the code after the loop: flushPending() again
\* (queue = Array.from(pendingComputations); clear) when the set is not empty
FlushStep ==
  /\ Running /\ Top.kind = "flush"
  /\ IF Top.i > Len(Top.queue)
     THEN /\ IF pendingComputations # << >>
             THEN /\ stack' = SetTop(stack, Frame("flush", NoComp, NoComp,
                                                  ArrayFrom(pendingComputations)))
                  /\ pendingComputations' = pendingCleared(pendingComputations)
             ELSE /\ stack' = Pop(stack)
                  /\ UNCHANGED pendingComputations
          /\ UNCHANGED << value, subscribers, deps, cleanups, batchDepth,
                          currentComputation, obs >>
     ELSE /\ BeginExecute(Top.queue[Top.i], SetTop(stack, [Top EXCEPT !.i = @ + 1]),
                          [obs EXCEPT !.flushed = Append(@, Top.queue[Top.i])])
          /\ UNCHANGED << value, pendingComputations, batchDepth >>
  /\ UNCHANGED << aux, prog, created, exc, domv >>

\* execute(), after the body returned: finally { currentComputation =
\* previous }; a memo then compares and notifies its subscribers
FinishExecute ==
  /\ Running /\ Top.kind = "exec" /\ Top.pc > Len(Body(Top.comp))
  /\ currentComputation' = restorePrevious(Top.prev, currentComputation)
  /\ IF Top.comp \in Memos /\ ~ObjectIs(Top.acc, value[Top.comp])
     THEN /\ value' = [value EXCEPT ![Top.comp] = Top.acc]
          /\ stack' = SetTop(stack, notifySubscribers(Top.comp))
     ELSE /\ stack' = Pop(stack)
          /\ UNCHANGED value
  /\ UNCHANGED << aux, prog, created, subscribers, deps, cleanups, pendingComputations,
                  batchDepth, exc, domv, obs >>

Advance(f) == [f EXCEPT !.pc = @ + 1]

\* body statement x(): Signal.read / Memo.read
ExecRead ==
  /\ InBody /\ Cur.op = "read"
  /\ LET x == Cur.x
         t == trackDependency(currentComputation) IN
     /\ subscribers' = [subscribers EXCEPT ![x] =
                          IF t = {} THEN @ ELSE SetAdd(@, currentComputation)]
     /\ deps' = [c \in Comps |-> IF c \in t THEN SetAdd(deps[c], x) ELSE deps[c]]
     /\ stack' = SetTop(stack, [Advance(Top) EXCEPT !.acc = @ + value[x],
                                                    !.last = value[x],
                                                    !.reads = @ \cup (IF t = {} THEN {} ELSE {x})])
     /\ obs' = [obs EXCEPT
                  !.seen = [c \in Comps |-> IF c \in t THEN Append(obs.seen[c], << x, value[x] >>)
                                            ELSE obs.seen[c]],
                  !.stale = IF x \in Memos /\ value[x] # Fn(x)
                            THEN @ \cup {Top.comp} ELSE @]
  /\ UNCHANGED << aux, prog, created, value, cleanups, pendingComputations, batchDepth,
                  currentComputation, exc, domv >>

\* body statements without calls into the library
ExecLocal ==
  /\ InBody /\ Cur.op \in {"clamp", "jz", "jmp"}
  /\ stack' = SetTop(stack,
       CASE Cur.op = "clamp" -> [Advance(Top) EXCEPT !.acc = Min(@, 1)]
         [] Cur.op = "jz" -> [Top EXCEPT !.pc = IF Top.last = 0 THEN Cur.n ELSE @ + 1]
         [] Cur.op = "jmp" -> [Top EXCEPT !.pc = Cur.n])
  /\ UNCHANGED << aux, prog, created, lib, exc, domv, obs >>

\* body statement createEffect(fn): a new computation, executed at once; the
\* running computation keeps no reference to it
ExecCreateEffect ==
  /\ InBody /\ Cur.op = "createEffect"
  /\ Cardinality(created \cap InnerEffects) < MaxInner
  /\ LET q == InnerNames[Cardinality(created \cap InnerEffects) + 1] IN
     /\ created' = created \cup {q}
     /\ BeginExecute(q, SetTop(stack, Advance(Top)), obs)
  /\ UNCHANGED << aux, prog, value, pendingComputations, batchDepth, exc, domv >>

\* untrack(fn), up to the call of fn
ExecUntrack ==
  /\ InBody /\ Cur.op = "untrack"
  /\ currentComputation' = untrackPointer(currentComputation)
  /\ stack' = SetTop(stack, [Advance(Top) EXCEPT !.fin = Append(@, currentComputation)])
  /\ UNCHANGED << aux, prog, created, value, subscribers, deps, cleanups,
                  pendingComputations, batchDepth, exc, domv, obs >>

\* untrack(fn), finally block after fn returned
ExecEndUntrack ==
  /\ InBody /\ Cur.op = "enduntrack"
  /\ currentComputation' = untrackRestore(Top.fin[Len(Top.fin)], currentComputation)
  /\ stack' = SetTop(stack, [Advance(Top) EXCEPT !.fin = Pop(@)])
  /\ UNCHANGED << aux, prog, created, value, subscribers, deps, cleanups,
                  pendingComputations, batchDepth, exc, domv, obs >>

\* body statement onCleanup(cleanup_n)
ExecOnCleanup ==
  /\ InBody /\ Cur.op = "onCleanup"
  /\ IF onCleanupThrows(currentComputation)
     THEN /\ exc' = TRUE
          /\ obs' = [obs EXCEPT !.failed = TRUE]
          /\ UNCHANGED << cleanups, stack >>
     ELSE /\ cleanups' = [c \in Comps |-> IF c = currentComputation
                                          THEN Append(cleanups[c], Cur.n) ELSE cleanups[c]]
          /\ stack' = SetTop(stack, Advance(Top))
          /\ obs' = [obs EXCEPT !.regs[Top.comp] = Append(@, Cur.n),
                                 !.late = IF Top.old THEN @ \cup {Top.comp} ELSE @]
          /\ UNCHANGED exc
  /\ UNCHANGED << aux, prog, created, value, subscribers, deps, pendingComputations,
                  batchDepth, currentComputation, domv >>

\* body statement throw new Error(...)
ExecThrow ==
  /\ InBody /\ Cur.op = "throw"
  /\ exc' = TRUE
  /\ obs' = [obs EXCEPT !.failed = TRUE]
  /\ UNCHANGED << aux, prog, created, lib, stack, domv >>

\* the argument of the setter call at the current statement
Written == IF Cur.op = "write" THEN Cur.n ELSE (Top.last + 1) % (MaxVal + 1)

\* body statement setX(n): Signal.write
ExecWrite ==
  /\ InBody /\ Cur.op \in {"write", "writeNext"}
  /\ IF ObjectIs(value[Cur.x], Written)
     THEN /\ stack' = SetTop(stack, Advance(Top))
          /\ UNCHANGED value
     ELSE /\ value' = [value EXCEPT ![Cur.x] = Written]
          /\ stack' = Append(SetTop(stack, Advance(Top)),
                             notifySubscribers(Cur.x))
  /\ obs' = [obs EXCEPT !.wrote = TRUE]
  /\ UNCHANGED << aux, prog, created, subscribers, deps, cleanups, pendingComputations,
                  batchDepth, currentComputation, exc, domv >>

\* generated chain effect:  for (const __n of ifNodes) if (__n.parentNode ===
\* parent) parent.removeChild(__n);  ifNodes = [];
ExecDomClear ==
  /\ InBody /\ Cur.op = "domClear"
  /\ dom' = removeNodes(dom, ifNodes[Top.comp])
  /\ ifNodes' = [ifNodes EXCEPT ![Top.comp] = << >>]
  /\ stack' = SetTop(stack, Advance(Top))
  /\ UNCHANGED << aux, prog, created, lib, exc, gen, listv, obs >>

\* generated chain effect, inside branch n: build the element in a fragment,
\* branchNodes = Array.from(fragment.childNodes); insert each before the
\* marker; ifNodes = branchNodes
ExecDomRender ==
  /\ InBody /\ Cur.op = "domRender"
  /\ LET c == Top.comp
         el == Node(c, Cur.n, gen[c]) IN
     /\ dom' = insertBefore(dom, el, Marker(c))
     /\ ifNodes' = [ifNodes EXCEPT ![c] = << el >>]
     /\ gen' = [gen EXCEPT ![c] = 1 - @]
  /\ stack' = SetTop(stack, Advance(Top))
  /\ UNCHANGED << aux, prog, created, lib, exc, listv, obs >>

\* generated tn-for effect:  for (const node of forNodes) if (node.parentNode
\* === parent) parent.removeChild(node);  forNodes = [];
ExecForClear ==
  /\ InBody /\ Cur.op = "forClear"
  /\ dom' = removeNodes(dom, forNodes[Top.comp])
  /\ forNodes' = [forNodes EXCEPT ![Top.comp] = << >>]
  /\ scope' = { e \in scope : e.node \notin Range(forNodes[Top.comp]) }
  /\ stack' = SetTop(stack, Advance(Top))
  /\ UNCHANGED << aux, prog, created, lib, exc, ifNodes, gen, currentNodes, obs >>

\* generated tn-for effect, the loop over forList: build each element in a
\* fragment, insert its nodes before the marker, forNodes.push(...loopNodes)
ExecForRender ==
  /\ InBody /\ Cur.op = "forRender"
  /\ LET c == Top.comp
         items == forList(ListExpr(Top.last))
         nodes == loopNodes(c, items, gen[c]) IN
     /\ dom' = insertEach(dom, nodes, Marker(c))
     /\ forNodes' = [forNodes EXCEPT ![c] = @ \o nodes]
     /\ scope' = scope \cup loopScope(c, items, gen[c])
     /\ gen' = [gen EXCEPT ![c] = 1 - @]
  /\ stack' = SetTop(stack, Advance(Top))
  /\ UNCHANGED << aux, prog, created, lib, exc, ifNodes, currentNodes, obs >>

\* effect of insert(parent, accessor, marker), after resolved = accessor():
\* nextNodes = normalizeNodes(resolved); currentNodes = replaceNodes(...)
ExecReplaceNodes ==
  /\ InBody /\ Cur.op = "replaceNodes"
  /\ LET c == Top.comp
         nextNodes == normalizeNodes(c, InsertExpr(c, Top.last), gen[c]) IN
     /\ dom' = replaceNodes(dom, currentNodes[c], nextNodes, insertMarker(c))
     /\ currentNodes' = [currentNodes EXCEPT ![c] = nextNodes]
     /\ gen' = [gen EXCEPT ![c] = 1 - @]
  /\ stack' = SetTop(stack, Advance(Top))
  /\ UNCHANGED << aux, prog, created, lib, exc, ifNodes, forNodes, scope, obs >>

\* a propagating exception leaves the innermost call: the finally block of
\* untrack, then the one of execute; notifySubscribers and flushPending have
\* none
Unwind ==
  /\ exc /\ stack # << >>
  /\ IF Top.kind = "exec"
     THEN IF Top.fin # << >>
          THEN /\ currentComputation' = untrackRestore(Top.fin[Len(Top.fin)], currentComputation)
               /\ stack' = SetTop(stack, [Top EXCEPT !.fin = Pop(@)])
          ELSE /\ currentComputation' = restorePrevious(Top.prev, currentComputation)
               /\ stack' = Pop(stack)
     ELSE /\ stack' = Pop(stack)
          /\ UNCHANGED currentComputation
  /\ UNCHANGED << aux, prog, created, value, subscribers, deps, cleanups,
                  pendingComputations, batchDepth, exc, domv, obs >>

\* the exception reaches the top-level caller
Deliver ==
  /\ exc /\ stack = << >>
  /\ exc' = FALSE
  /\ obs' = [obs EXCEPT !.threw = TRUE]
  /\ UNCHANGED << aux, prog, created, lib, stack, domv >>

Init == InitOf(Programs)
InitDom == InitOf(DomPrograms)

\* the reactive core under client programs without DOM statements
Next ==
  \/ \E x \in Signals, v \in 0..MaxVal : Write(x, v)
  \/ \E c \in Comps : Create(c)
  \/ BatchEnter
  \/ BatchExit
  \/ OnCleanupTop
  \/ NotifyStep
  \/ FlushStep
  \/ FinishExecute
  \/ ExecRead
  \/ ExecLocal
  \/ ExecUntrack
  \/ ExecEndUntrack
  \/ ExecOnCleanup
  \/ ExecWrite
  \/ Unwind
  \/ Deliver

Spec == Init /\ [][Next]_vars

\* effects that write a signal while the subscribers of another are notified
InitSub == InitOf(SubPrograms)

NextSub ==
  \/ \E x \in Signals, v \in 0..MaxVal : Write(x, v)
  \/ \E c \in Comps : Create(c)
  \/ BatchEnter
  \/ BatchExit
  \/ NotifyStep
  \/ FlushStep
  \/ FinishExecute
  \/ ExecRead
  \/ ExecLocal
  \/ ExecWrite

SpecSub == InitSub /\ [][NextSub]_vars

\* an effect created by the body of another
InitNest == InitOf(NestPrograms)

NextNest ==
  \/ \E x \in Signals, v \in 0..MaxVal : Write(x, v)
  \/ \E c \in Comps : Create(c)
  \/ BatchEnter
  \/ BatchExit
  \/ NotifyStep
  \/ FlushStep
  \/ FinishExecute
  \/ ExecRead
  \/ ExecCreateEffect

SpecNest == InitNest /\ [][NextNest]_vars

\* termination: the library runs to completion once called, so every step
\* inside a call is taken when it can be
InitTerm == InitOf(TermPrograms)

StepTerm ==
  \/ NotifyStep
  \/ FlushStep
  \/ FinishExecute
  \/ ExecRead
  \/ ExecLocal
  \/ ExecWrite

NextTerm ==
  \/ \E x \in Signals, v \in 0..MaxVal : Write(x, v)
  \/ \E c \in Comps : Create(c)
  \/ BatchEnter
  \/ BatchExit
  \/ StepTerm

SpecTerm == InitTerm /\ [][NextTerm]_vars /\ WF_vars(StepTerm)

\* bodies that throw
InitErr == InitOf(ErrPrograms)

NextErr ==
  \/ \E x \in Signals, v \in 0..MaxVal : Write(x, v)
  \/ \E c \in Comps : Create(c)
  \/ BatchEnter
  \/ BatchExit
  \/ NotifyStep
  \/ FlushStep
  \/ FinishExecute
  \/ ExecRead
  \/ ExecLocal
  \/ ExecUntrack
  \/ ExecEndUntrack
  \/ ExecOnCleanup
  \/ ExecWrite
  \/ ExecThrow
  \/ Unwind
  \/ Deliver

SpecErr == InitErr /\ [][NextErr]_vars

\* the generated chain effects running on the reactive core
NextDom ==
  \/ \E x \in Signals, v \in 0..MaxVal : Write(x, v)
  \/ \E c \in Comps : Create(c)
  \/ BatchEnter
  \/ BatchExit
  \/ NotifyStep
  \/ FlushStep
  \/ FinishExecute
  \/ ExecRead
  \/ ExecLocal
  \/ ExecDomClear
  \/ ExecDomRender

SpecDom == InitDom /\ [][NextDom]_vars

\* the generated tn-for effect and the effects of insert() on the reactive core
InitList == InitOf(ListPrograms)
NextList ==
  \/ \E x \in Signals, v \in 0..MaxVal : Write(x, v)
  \/ \E c \in Comps : Create(c)
  \/ BatchEnter
  \/ BatchExit
  \/ NotifyStep
  \/ FlushStep
  \/ FinishExecute
  \/ ExecRead
  \/ ExecForClear
  \/ ExecForRender
  \/ ExecReplaceNodes

SpecList == InitList /\ [][NextList]_vars

\* ========================================================================
\* The compiler: generate() over the tree of a template
\* ========================================================================
\* A node of the tree: an element with the directive attributes it carries
\* and its children, or a text node (whitespace-only or not).
Element(attrs, children) ==
  [type |-> "Element", attrs |-> attrs, ws |-> FALSE, children |-> children]
Text(ws) == [type |-> "Text", attrs |-> {}, ws |-> ws, children |-> << >>]

\* the directive attributes an element of the explored templates carries
DirectiveSets ==
  { {}, {"tn-if"}, {"tn-else-if"}, {"tn-else"}, {"tn-for"}, {"tn-for", "tn-else"},
    {"tn-if", "tn-for"} }
Leaves == { Element(a, << >>) : a \in DirectiveSets } \cup { Text(TRUE), Text(FALSE) }
\* the children given to a plain element or to a tn-if element
KidLists ==
  { << Element({"tn-if"}, << >>), Text(TRUE), Element({"tn-else"}, << >>) >>,
    << Element({"tn-else-if"}, << >>) >> }
TemplateNodes ==
  Leaves \cup { Element(a, k) : a \in { {}, {"tn-if"} }, k \in KidLists }
Templates == UNION { [1..n -> TemplateNodes] : n \in 0..MaxSiblings }

\* mutant: no element counts as a tn-if element
directivesIf_never(node) == FALSE
\* transformNode: the directives of an element
directivesIf(node) == "tn-if" \in node.attrs
directivesFor(node) == "tn-for" \in node.attrs
directivesElseIf(node) == "tn-else-if" \in node.attrs
directivesElse(node) == "tn-else" \in node.attrs

\* the node at a path of child indices below the root
RECURSIVE NodeAt(_, _)
NodeAt(children, path) ==
  IF Len(path) = 1 THEN children[path[1]]
  ELSE NodeAt(children[path[1]].children, Tail(path))
\* the children of the node at path (of the root for the empty path)
ChildrenAt(path) == IF path = << >> THEN template ELSE NodeAt(template, path).children

\* mutant: whitespace between the branches ends the chain
isWhitespace_never(sibling) == FALSE
\* emitChildren: sibling.segments.every(static and blank)
isWhitespace(sibling) == sibling.ws

\* emitChildren, inner loop: the members of the chain that starts at the
\* tn-if element before j, and the index of the first sibling after it
RECURSIVE gatherChain(_, _, _)
gatherChain(children, j, chain) ==
  IF j > Len(children) THEN [chain |-> chain, j |-> j]
  ELSE LET sibling == children[j] IN
       IF sibling.type = "Text"
       THEN IF isWhitespace(sibling)
            THEN gatherChain(children, j + 1, chain)
            ELSE [chain |-> chain, j |-> j]
       ELSE IF directivesElseIf(sibling) \/ directivesElse(sibling)
            THEN IF directivesElse(sibling)
                 THEN [chain |-> Append(chain, j), j |-> j + 1]
                 ELSE gatherChain(children, j + 1, Append(chain, j))
            ELSE [chain |-> chain, j |-> j]

\* mutant: the generator accepts a branch without its tn-if
orphaned_never(child) == FALSE
\* emitChildren: the test that throws "... without a preceding tn-if"
orphaned(child) ==
  child.type = "Element" /\ (directivesElseIf(child) \/ directivesElse(child))
\* the directive the Error names
orphanName(child) == IF directivesElseIf(child) THEN "tn-else-if" ELSE "tn-else"

\* one emitted construct: k is what it is, dir the directive of a branch,
\* chain the path of the tn-if element of its chain, at the path of the node
Line(k, dir, chain, at) == [k |-> k, dir |-> dir, chain |-> chain, at |-> at]
\* an active call: emitChildren over the children of the node at path, at
\* child i; or emitConditionalChain over the members of a chain, at branch i
Call(kind, path, members) == [kind |-> kind, path |-> path, members |-> members, i |-> 1]

\* the directive that opens the branch: if (...) {, } else if (...) {, } else {
branchTest(branch) ==
  IF directivesIf(branch) THEN "if"
  ELSE IF directivesElseIf(branch) THEN "else if" ELSE "else"

\* emitChildren: one iteration of  while (i < children.length), or its return
EmitChildrenStep ==
  /\ work # << >> /\ work[Len(work)].kind = "children"
  /\ LET f == work[Len(work)]
         children == ChildrenAt(f.path)
         next == SetTop(work, [f EXCEPT !.i = @ + 1]) IN
     IF f.i > Len(children)
     THEN work' = Pop(work) /\ UNCHANGED << lines, cerr >>
     ELSE LET child == children[f.i]
              at == Append(f.path, f.i) IN
          IF child.type = "Element" /\ directivesIf(child)
          THEN LET g == gatherChain(children, f.i + 1, << f.i >>) IN
               /\ lines' = lines \o << Line("marker", "", at, at),
                                       Line("effect", "", at, at) >>
               /\ work' = Append(SetTop(work, [f EXCEPT !.i = g.j]),
                                 Call("chain", f.path, g.chain))
               /\ UNCHANGED cerr
          ELSE IF orphaned(child)
          THEN /\ cerr' = orphanName(child)
               /\ work' = << >>
               /\ UNCHANGED lines
          ELSE IF child.type = "Text"
          THEN /\ lines' = Append(lines, Line("text", "", << >>, at))
               /\ work' = next
               /\ UNCHANGED cerr
          ELSE /\ lines' = lines \o
                    (IF directivesFor(child)
                     THEN << Line("forMarker", "", << >>, at),
                             Line("forEffect", "", << >>, at) >>
                     ELSE << >>)
                    \o << Line("element", "", << >>, at) >>
               /\ work' = Append(next, Call("children", at, << >>))
               /\ UNCHANGED cerr
  /\ UNCHANGED << core, propsv, tf, parsev, evv, template, returned >>

\* emitConditionalChain: one iteration of  for (branchIdx ...): the test
\* line and emitPlainElement(removeControlFlow(branch)); or the closing lines
EmitChainStep ==
  /\ work # << >> /\ work[Len(work)].kind = "chain"
  /\ LET f == work[Len(work)] IN
     IF f.i > Len(f.members)
     THEN work' = Pop(work) /\ UNCHANGED lines
     ELSE LET at == Append(f.path, f.members[f.i])
              branch == NodeAt(template, at) IN
          /\ lines' = Append(lines, Line("branch", branchTest(branch),
                                         Append(f.path, f.members[1]), at))
          /\ work' = Append(SetTop(work, [f EXCEPT !.i = @ + 1]),
                            Call("children", at, << >>))
  /\ UNCHANGED << core, propsv, tf, parsev, evv, template, cerr, returned >>

\* generate: return { code }
GenerateReturn ==
  /\ work = << >> /\ cerr = "" /\ ~returned
  /\ returned' = TRUE
  /\ UNCHANGED << core, propsv, tf, parsev, evv, template, work, lines, cerr >>

\* generate(root, ...) called on each template, up to emitChildren(root)
InitGen ==
  /\ CoreInit({ {} }) /\ PropsIdle /\ ParserIdle /\ EventsInit
  /\ template \in Templates
  /\ work = << Call("children", << >>, << >>) >>
  /\ lines = << >>
  /\ cerr = ""
  /\ returned = FALSE

NextGen ==
  \/ EmitChildrenStep
  \/ EmitChainStep
  \/ GenerateReturn

SpecGen == InitGen /\ [][NextGen]_vars

\* ========================================================================
\* The parser: parseTemplate() over the tags of a template
\* ========================================================================
\* What the scan meets at templateSource[index]: an open tag, a close tag, a
\* self-closing tag, text up to the next '<' (blank or not), a comment.
Token(t, tag) == [t |-> t, tag |-> tag]
Tags == {"a", "b"}
Tokens ==
  { Token(t, tag) : t \in {"open", "close"}, tag \in Tags }
    \cup { Token("self", "a"), Token("text", ""), Token("blank", ""),
           Token("comment", "") }
TemplateSources == UNION { [1..n -> Tokens] : n \in 0..MaxTokens }

\* a node of the tree: its tag ("" for text) and the position in root of its
\* parent (0: a child of the root)
TemplateNode(type, tag, parent) == [type |-> type, tag |-> tag, parent |-> parent]
\* appendChild: the parent the node goes under
appendParent(st) == IF Len(st) = 0 THEN 0 ELSE st[Len(st)]

\* mutant: any close tag closes the innermost open element
mismatched_anyTag(st, nodes, tag) == st = << >>
\* parseTemplate: !current || current.tag !== tag  for current = stack.pop()
mismatched(st, nodes, tag) == st = << >> \/ nodes[st[Len(st)]].tag # tag

\* parseTemplate: one iteration of  while (index < templateSource.length)
ParseStep ==
  /\ perr = NoError /\ ~parsed
  /\ index <= Len(templateSource)
  /\ LET tok == templateSource[index] IN
     CASE tok.t = "comment" ->
            /\ index' = index + 1
            /\ UNCHANGED << tagStack, root, perr >>
       [] tok.t = "close" ->
            IF mismatched(tagStack, root, tok.tag)
            THEN /\ perr' = [kind |-> "Mismatched closing tag", tag |-> tok.tag]
                 /\ UNCHANGED << index, tagStack, root >>
            ELSE /\ tagStack' = Pop(tagStack)
                 /\ index' = index + 1
                 /\ UNCHANGED << root, perr >>
       [] tok.t \in {"open", "self"} ->
            /\ root' = Append(root, TemplateNode("Element", tok.tag, appendParent(tagStack)))
            /\ index' = index + 1
            /\ tagStack' = IF tok.t = "self" THEN tagStack
                           ELSE Append(tagStack, Len(root) + 1)
            /\ UNCHANGED perr
       [] tok.t = "blank" ->
            /\ index' = index + 1
            /\ UNCHANGED << tagStack, root, perr >>
       [] tok.t = "text" ->
            /\ root' = Append(root, TemplateNode("Text", "", appendParent(tagStack)))
            /\ index' = index + 1
            /\ UNCHANGED << tagStack, perr >>
  /\ UNCHANGED << core, propsv, tf, cgv, evv, templateSource, parsed >>

\* parseTemplate, after the loop: throw "Unclosed tag" or return root
ParseEnd ==
  /\ perr = NoError /\ ~parsed
  /\ index > Len(templateSource)
  /\ IF Len(tagStack) > 0
     THEN /\ perr' = [kind |-> "Unclosed tag", tag |-> root[tagStack[Len(tagStack)]].tag]
          /\ UNCHANGED parsed
     ELSE /\ parsed' = TRUE
          /\ UNCHANGED perr
  /\ UNCHANGED << core, propsv, tf, cgv, evv, templateSource, index, tagStack, root >>

InitParse ==
  /\ CoreInit({ {} }) /\ PropsIdle /\ CompilerIdle /\ EventsInit
  /\ templateSource \in TemplateSources
  /\ index = 1
  /\ tagStack = << >>
  /\ root = << >>
  /\ perr = NoError
  /\ parsed = FALSE

NextParse ==
  \/ ParseStep
  \/ ParseEnd

SpecParse == InitParse /\ [][NextParse]_vars

\* ========================================================================
\* The event bridge: delegateEvents, spread of event keys, dispatch
\* ========================================================================
\* The document tree of the tests: a text node in button in parent in host,
\* host attached to the document.
EventTargets == {"text", "button", "parent"}
parentNode(n) ==
  CASE n = "text" -> "button"
    [] n = "button" -> "parent"
    [] n = "parent" -> "host"
    [] OTHER -> "document"
\* node instanceof Element
isElement(n) == n # "text"
\* The values passed under an event key: f returns, g calls
\* event.stopPropagation(), notfn is not a function.
Handlers == {"f", "g"}
SpreadValues == Handlers \cup {"notfn"}
stopsPropagation(h) == h = "g"
Invoke(ev, node, h, by) ==
  [ev EXCEPT !.calls = Append(@, [node |-> node, handler |-> h, by |-> by]),
             !.cancelBubble = @ \/ stopsPropagation(h)]
NoDispatch == event.phase \in {"idle", "done"}

\* element.addEventListener(type, h): a listener already in the list is not
\* added again
addEventListener(ls, h) == IF h \in Range(ls) THEN ls ELSE Append(ls, h)
removeEventListener(ls, h) == SelectSeq(ls, LAMBDA x : x # h)

\* mutant: the listener registered before is forgotten
previousListener_none(map, eventName) == NoHandler
\* applyEventHandler: previous = listenersForElement.get(eventName)
previousListener(map, eventName) == map[eventName]

\* mutant: no event name counts as delegated
isDelegated_never(eventName) == FALSE
\* applyEventHandler: delegatedEvents.has(eventName)
isDelegated(eventName) == eventName \in delegatedEvents

\* delegateEvents([eventName])
DelegateEvents(name) ==
  /\ NoDispatch
  /\ delegatedEvents' = delegatedEvents \cup {name}
  /\ listeningEvents' = listeningEvents \cup {name}
  /\ delegatedEvents' # delegatedEvents
  /\ UNCHANGED << core, propsv, tf, cgv, parsev, tnDelegatedHandlers, directListeners,
                  eventListeners, event, lastDirect >>

\* spread(element, { [key]: value }) for an event key: applyEventHandler
Spread(element, eventName, handler) ==
  /\ NoDispatch
  /\ IF handler \notin Handlers
     THEN UNCHANGED << tnDelegatedHandlers, directListeners, eventListeners, lastDirect >>
     ELSE IF isDelegated(eventName)
     THEN /\ tnDelegatedHandlers' = [tnDelegatedHandlers EXCEPT ![element][eventName] = handler]
          /\ UNCHANGED << directListeners, eventListeners, lastDirect >>
     ELSE LET previous == previousListener(directListeners[element], eventName)
              removed == IF previous # NoHandler
                         THEN removeEventListener(eventListeners[element][eventName], previous)
                         ELSE eventListeners[element][eventName] IN
          /\ directListeners' = [directListeners EXCEPT ![element][eventName] = handler]
          /\ eventListeners' = [eventListeners EXCEPT ![element][eventName] =
                                  addEventListener(removed, handler)]
          /\ lastDirect' = [lastDirect EXCEPT ![element][eventName] = handler]
          /\ UNCHANGED tnDelegatedHandlers
  /\ UNCHANGED << core, propsv, tf, cgv, parsev, delegatedEvents, listeningEvents, event >>

\* target.dispatchEvent(new Event(type, { bubbles: true }))
Dispatch(target, type) ==
  /\ NoDispatch
  /\ event' = [type |-> type, target |-> target, node |-> target,
               phase |-> "bubble", cancelBubble |-> FALSE, reached |-> FALSE,
               calls |-> << >>]
  /\ UNCHANGED << core, propsv, tf, cgv, parsev, delegatedEvents, listeningEvents,
                  tnDelegatedHandlers, directListeners, eventListeners, lastDirect >>

\* the listeners the DOM invokes at a node, in order
RECURSIVE InvokeAll(_, _, _)
InvokeAll(ev, node, ls) ==
  IF ls = << >> THEN ev
  ELSE InvokeAll(Invoke(ev, node, Head(ls), "direct"), node, Tail(ls))

\* the DOM's propagation: the listeners of the current node, then the parent
\* unless propagation was stopped; at the document, handleDelegatedEvent if
\* the document listens for the type
BubbleStep ==
  /\ event.phase = "bubble"
  /\ IF event.node = "document"
     THEN event' = IF event.type \in listeningEvents
                   THEN [event EXCEPT !.phase = "delegated", !.node = event.target,
                                      !.reached = TRUE]
                   ELSE [event EXCEPT !.phase = "done"]
     ELSE LET ev == IF event.node \in SpreadElements
                    THEN InvokeAll(event, event.node, eventListeners[event.node][event.type])
                    ELSE event IN
          event' = IF ev.cancelBubble THEN [ev EXCEPT !.phase = "done"]
                   ELSE [ev EXCEPT !.node = parentNode(event.node)]
  /\ UNCHANGED << core, propsv, tf, cgv, parsev, delegatedEvents, listeningEvents,
                  tnDelegatedHandlers, directListeners, eventListeners, lastDirect >>

\* mutant: the walk goes on after stopPropagation()
walkStops_never(ev) == FALSE
\* handleDelegatedEvent:  if (event.cancelBubble) return
walkStops(ev) == ev.cancelBubble

\* handleDelegatedEvent: one iteration of  while (node && node !== document),
\* or its return
DelegatedStep ==
  /\ event.phase = "delegated"
  /\ IF event.node = "document"
     THEN event' = [event EXCEPT !.phase = "done"]
     ELSE LET handler == IF isElement(event.node) /\ event.node \in SpreadElements
                         THEN tnDelegatedHandlers[event.node][event.type]
                         ELSE NoHandler
              ev == IF handler # NoHandler
                    THEN Invoke(event, event.node, handler, "delegated") ELSE event IN
          event' = IF handler # NoHandler /\ walkStops(ev)
                   THEN [ev EXCEPT !.phase = "done"]
                   ELSE [ev EXCEPT !.node = parentNode(event.node)]
  /\ UNCHANGED << core, propsv, tf, cgv, parsev, delegatedEvents, listeningEvents,
                  tnDelegatedHandlers, directListeners, eventListeners, lastDirect >>

InitEvents == CoreInit({ {} }) /\ PropsIdle /\ CompilerIdle /\ ParserIdle /\ EventsInit

NextEvents ==
  \/ \E name \in {"click"} : DelegateEvents(name)
  \/ \E e \in SpreadElements, n \in EventNames, v \in SpreadValues : Spread(e, n, v)
  \/ \E t \in EventTargets, n \in EventNames : Dispatch(t, n)
  \/ BubbleStep
  \/ DelegatedStep

SpecEvents == InitEvents /\ [][NextEvents]_vars

\* ========================================================================
\* Component props: a compiled component whose script declares defaults,
\* called with the props object literal of a component reference
\* ========================================================================
\* values of static attributes ("..." or null for an attribute without value)
AttrValues == {Null, 7}
\* values of the defaults literal
DefaultValues == {8, 9}
\* emitComponentElement: the props literal holds, per key, a static attribute
\* as a data entry, a binding as a getter entry, or nothing
PropsObjects == [PropKeys -> {Absent, Getter} \cup { Data(v) : v \in AttrValues }]
DefaultsObjects == [PropKeys -> {Absent} \cup { Data(v) : v \in DefaultValues }]

\* mutant: the caller's values are copied ({ ...defaults, ...__props })
getOwnPropertyDescriptors_values(o) ==
  [k \in { k \in PropKeys : o[k].kind # "absent" } |->
     IF o[k].kind = "get" THEN Data(count) ELSE o[k]]
\* Object.getOwnPropertyDescriptors(__props): the descriptor of each own
\* property, a getter remaining a getter
getOwnPropertyDescriptors(o) ==
  [k \in { k \in PropKeys : o[k].kind # "absent" } |-> o[k]]
\* Object.create(proto, descriptors)
ObjectCreate(proto, descriptors) == [proto |-> proto, own |-> descriptors]
\* o[k]: the own property (calling its getter), else the prototype's
Get(o, k) ==
  IF k \in DOMAIN o.own
  THEN IF o.own[k].kind = "get" THEN count ELSE o.own[k].v
  ELSE IF o.proto[k].kind = "data" THEN o.proto[k].v ELSE Undefined

Called == props # NoView

\* Component(__props): the rewritten script line
\*   const props = Object.create({defaults}, Object.getOwnPropertyDescriptors(__props))
CallComponent(p, d) ==
  /\ ~Called
  /\ incomingProps' = p
  /\ defaults' = d
  /\ props' = ObjectCreate(d, getOwnPropertyDescriptors(p))
  /\ UNCHANGED << core, cgv, parsev, evv, tf, count, propsRead >>

\* setCount(v) by the caller, after the component was built
SetCount(v) ==
  /\ Called
  /\ v # count
  /\ count' = v
  /\ UNCHANGED << core, cgv, parsev, evv, tf, incomingProps, defaults, props, propsRead >>

\* props[k] read by the component (in an effect or a handler)
ReadProp(k) ==
  /\ Called
  /\ propsRead' = [key |-> k, value |-> Get(props, k), count |-> count]
  /\ UNCHANGED << core, cgv, parsev, evv, tf, incomingProps, defaults, props, count >>

InitProps == CoreInit({ {} }) /\ CompilerIdle /\ ParserIdle /\ EventsInit /\ PropsIdle

NextProps ==
  \/ \E p \in PropsObjects, d \in DefaultsObjects : CallComponent(p, d)
  \/ \E v \in 0..MaxVal : SetCount(v)
  \/ \E k \in PropKeys : ReadProp(k)

SpecProps == InitProps /\ [][NextProps]_vars

\* ========================================================================
\* transformNode: the attributes of one element
\* ========================================================================
\* attribute names, as their leading character and the rest
AttrNames == { << "tn-if" >>, << "tn-for" >>, << ":", "a" >>, << "@", "a" >>,
               << ":", "tn-if" >>, << "a" >>, << "b" >> }
\* attribute values; "" is an attribute without value (null) or with ""
AttrExprs == {"", "e", "f"}
RawAttribute(name, v) == [name |-> name, value |-> v]
RawAttrs == UNION { [1..n -> { RawAttribute(name, v) : name \in AttrNames, v \in AttrExprs }]
                      : n \in 0..MaxAttrs }

\* attr.name.startsWith(ch)
startsWith(name, ch) == name[1] = ch
\* attr.name.slice(1)
slice1(name) == Tail(name)
\* mutant: no attribute is taken for a binding
isBinding_never(name) == FALSE
\* transformNode: attr.name.startsWith(':')
isBinding(name) == startsWith(name, ":")

\* transformNode: one iteration of  for (const attr of node.attrs)
TransformStep ==
  /\ tf.err = "" /\ ~tf.returned /\ tf.i <= Len(tf.attrs)
  /\ LET attr == tf.attrs[tf.i]
         next == [tf EXCEPT !.i = @ + 1] IN
     tf' = CASE attr.name = << "tn-if" >> ->
                  IF attr.value = "" THEN [tf EXCEPT !.err = "tn-if requires an expression value."]
                  ELSE [next EXCEPT !.directives.if = attr.value]
             [] attr.name = << "tn-for" >> ->
                  IF attr.value = "" THEN [tf EXCEPT !.err = "tn-for requires an expression value."]
                  ELSE [next EXCEPT !.directives.for = attr.value]
             [] OTHER ->
                  IF isBinding(attr.name)
                  THEN IF attr.value = "" THEN [tf EXCEPT !.err = "requires an expression value."]
                       ELSE [next EXCEPT !.bindings =
                               Append(@, [name |-> slice1(attr.name), expression |-> attr.value])]
                  ELSE IF startsWith(attr.name, "@")
                  THEN IF attr.value = ""
                       THEN [tf EXCEPT !.err = "requires an event handler expression."]
                       ELSE [next EXCEPT !.events =
                               Append(@, [name |-> slice1(attr.name), expression |-> attr.value])]
                  ELSE [next EXCEPT !.attributes =
                          Append(@, [name |-> attr.name, value |-> attr.value])]
  /\ UNCHANGED << core, cgv, parsev, evv, propsv >>

\* transformNode: return { attributes, bindings, events, directives, ... }
TransformReturn ==
  /\ tf.err = "" /\ ~tf.returned /\ tf.i > Len(tf.attrs)
  /\ tf' = [tf EXCEPT !.returned = TRUE]
  /\ UNCHANGED << core, cgv, parsev, evv, propsv >>

InitTransform ==
  /\ CoreInit({ {} }) /\ CompilerIdle /\ ParserIdle /\ EventsInit
  /\ incomingProps = NoObject /\ defaults = NoObject /\ props = NoView
  /\ count = 0 /\ propsRead = NoRead
  /\ \E as \in RawAttrs :
       tf = [attrs |-> as, i |-> 1,
             directives |-> [if |-> NoDirective, for |-> NoDirective],
             attributes |-> << >>, bindings |-> << >>, events |-> << >>,
             err |-> "", returned |-> FALSE]

NextTransform == TransformStep \/ TransformReturn

SpecTransform == InitTransform /\ [][NextTransform]_vars

\* ========================================================================
\* Properties
\* ========================================================================
EffectsIn(q) == SelectSeq(q, LAMBDA c : c \in Effects)
\* a top-level setter call made with no batch open has returned
WriteDone == Idle /\ obs.op = "write" /\ obs.depth0 = 0 /\ ~obs.threw
             /\ ~obs.wrote
\* the outermost batch() call has returned
BatchDone == Idle /\ obs.op = "batchExit" /\ batchDepth = 0 /\ ~obs.threw
             /\ ~obs.wrote

\* C1: after a setter call made with no batch open, each effect of the
\* subscriber snapshot taken at that write has executed exactly once, in
\* snapshot order.
C1_OncePerWriteInSnapshotOrder ==
  WriteDone => EffectsIn(obs.log) = EffectsIn(obs.snap)

\* C2: after the outermost batch exits, each effect has executed at most once
\* and its execution read no memo value older than the final values written.
C2_AtMostOncePerBatch ==
  BatchDone => \A c \in Effects : Count(obs.log, c) <= 1 /\ c \notin obs.stale

\* C3: a memo is re-run only if one of the dependencies it tracked has a value
\* different from the one it read in its last computation (checked for
\* writes made with no batch open, no body writing a signal), and a write of
\* the current value runs nothing.
C3_MemoRerunsOnlyOnChange ==
  /\ (obs.op = "write" /\ obs.depth0 = 0 /\ ~obs.wrote) => obs.spurious = {}
  /\ (obs.op = "write" /\ obs.same) => obs.log = << >>

\* C4: in the diamond s -> a, b -> e, a write to s that changes both memos
\* executes e exactly once, and no execution of e reads a memo whose value
\* was computed from the old value of s.
C4_DiamondRunsOnceNoGlitch ==
  (WriteDone /\ "e" \in created /\ obs.src = "s"
     /\ value["a"] # obs.pre["a"] /\ value["b"] # obs.pre["b"])
  => (Count(obs.log, "e") = 1 /\ "e" \notin obs.stale)

C6_BatchDefers ==
  /\ []((obs.op = "write" /\ obs.depth0 > 0)
          => (obs.log = << >>
              /\ (Idle => Range(obs.snap) \subseteq Range(pendingComputations))))
  /\ []((obs.op = "batchExit" /\ batchDepth > 0)
          => (obs.log = << >> /\ stack = << >>
              /\ pendingComputations = obs.prePending))
  /\ [][((batchDepth > 0 /\ Len(stack') = Len(stack) + 1
           /\ stack'[Len(stack')].kind = "exec") => (stack = << >>))
        /\ ((Len(pendingComputations') < Len(pendingComputations))
              => (obs'.op = "batchExit" /\ batchDepth' = 0))]_vars
\* an inner batch has been left with computations still pending
C6_Witness ==
  /\ Idle /\ obs.op = "batchExit" /\ batchDepth = 1
  /\ pendingComputations # << >>

InsideUntrack(c, i) ==
  Cardinality({ j \in 1..(i - 1) : Body(c)[j].op = "untrack" })
    > Cardinality({ j \in 1..(i - 1) : Body(c)[j].op = "enduntrack" })
\* sources the body of each computation reads outside untrack
Tracked ==
  [c \in Comps |->
    { Body(c)[i].x : i \in { j \in 1..Len(Body(c)) :
                               Body(c)[j].op = "read" /\ ~InsideUntrack(c, j) } }]
TrackedSources(c) == Tracked[c]
\* sources the body of each computation reads, but only inside untrack
Untracked ==
  [c \in Comps |->
    { Body(c)[i].x : i \in { j \in 1..Len(Body(c)) : Body(c)[j].op = "read" } }
      \ Tracked[c]]
UntrackedOnly(c) == Untracked[c]

\* C8: a source read only inside untrack is never a dependency of the
\* computation and a write to it does not execute the computation; when
\* untrack returns or is left by an exception, currentComputation is the
\* computation whose body called it.
C8_UntrackHidesReads ==
  /\ [](\A c \in Comps :
          /\ Range(deps[c]) \subseteq TrackedSources(c)
          /\ \A x \in Sources \ TrackedSources(c) : c \notin Range(subscribers[x])
          /\ (obs.op = "write" /\ obs.src \in UntrackedOnly(c))
               => c \notin Range(obs.log))
  /\ [][(stack # << >> /\ Len(stack') = Len(stack) /\ Top.kind = "exec"
         /\ Len(Top.fin) = 1 /\ stack'[Len(stack')].fin = << >>)
        => currentComputation' = Top.comp]_vars
\* f is past its untrack(() => t()) and t has been written since
C8_Witness ==
  /\ Idle /\ obs.op = "write" /\ obs.src = "t" /\ value["t"] # obs.pre["t"]
  /\ "f" \in created /\ deps["f"] = << "s" >>

\* C9: onCleanup called while currentComputation is none throws and leaves
\* every cleanup list as it was.
C9_OnCleanupOutsideThrows ==
  /\ []((Idle /\ obs.op = "onCleanup")
          => (obs.threw /\ cleanups = obs.preCleanups))
  /\ [][(currentComputation = NoComp
         /\ \/ (Idle /\ obs'.op = "onCleanup")
            \/ (InBody /\ Cur.op = "onCleanup"))
        => (exc' /\ cleanups' = cleanups)]_vars
\* the exception of a top-level onCleanup reached the caller
C9_Witness == Idle /\ obs.op = "onCleanup" /\ obs.threw /\ created # {}

\* the branch a run of chain c renders on the current values: the first whose
\* condition is truthy, else the tn-else branch, else none (0)
RECURSIVE firstTrue(_, _)
firstTrue(ch, i) ==
  IF i > Len(ch.conds) THEN (IF ch.else THEN i ELSE 0)
  ELSE IF value[ch.conds[i]] # 0 THEN i ELSE firstTrue(ch, i + 1)
\* the nodes chain c has in the parent, its marker excluded
ChainNodes(c) == SelectSeq(dom, LAMBDA n : n.chain = c /\ n.branch # 0)
\* the body of the effect of chain c has just finished
RunEnded(c) == Running /\ Top.kind = "exec" /\ Top.comp = c
               /\ Top.pc > Len(Body(c))

NodesOf(c) == SelectSeq(dom, LAMBDA n : n.chain = c /\ n.branch # 0)

RECURSIVE Contents(_)
Contents(nodes) ==
  IF nodes = << >> THEN << >>
  ELSE (IF isFragment(Head(nodes)) THEN childNodes(Head(nodes)) ELSE << Head(nodes) >>)
       \o Contents(Tail(nodes))

\* C15: after every run of the effect of insert(parent, accessor, marker) the
\* children of parent are its other children, unchanged and in order, with
\* the nodes of the latest accessor value immediately before the marker (at
\* the end without marker), and nothing of an earlier run.
C15_InsertReplacesBeforeMarker ==
  \A c \in InsertEffects :
    RunEnded(c) =>
      dom = << Static >>
            \o Contents(normalizeNodes(c, InsertExpr(c, value["s"]), 1 - gen[c]))
            \o hostSetup(c)

\* ------------------------------------------------------------ the compiler
\* paths of the nodes of the template
AllPaths ==
  { << i >> : i \in 1..Len(template) }
    \cup UNION { { << i, j >> : j \in 1..Len(template[i].children) } :
                 i \in 1..Len(template) }
Front(p) == SubSeq(p, 1, Len(p) - 1)
Last(p) == p[Len(p)]
Carries(p, d) == d \in NodeAt(template, p).attrs
IsBranch(p) == Carries(p, "tn-if") \/ Carries(p, "tn-else-if") \/ Carries(p, "tn-else")
\* the tn-if siblings whose chain the tn-else-if / tn-else element at p
\* continues: only whitespace text and tn-else-if elements lie between
HeadsOf(p) ==
  LET sibs == ChildrenAt(Front(p)) IN
  { i \in 1..(Last(p) - 1) :
      /\ "tn-if" \in sibs[i].attrs
      /\ \A m \in (i + 1)..(Last(p) - 1) :
           \/ sibs[m].type = "Text" /\ sibs[m].ws
           \/ sibs[m].type = "Element" /\ sibs[m].attrs = {"tn-else-if"} }
Orphans ==
  { p \in AllPaths : ~Carries(p, "tn-if") /\ IsBranch(p) /\ HeadsOf(p) = {} }
\* the path of the tn-if element that heads the chain of the branch at p
HeadPath(p) ==
  IF Carries(p, "tn-if") THEN p
  ELSE Append(Front(p), CHOOSE i \in HeadsOf(p) : TRUE)
LinesOf(k, p) == { n \in 1..Len(lines) : lines[n].k = k /\ lines[n].at = p }

TagsOf(src) == SelectSeq(src, LAMBDA k : k.t \in {"open", "close"})
\* cancel adjacent  <x> </x>  pairs until none is left
RECURSIVE Cancel(_)
Cancel(q) ==
  LET P == { n \in 1..(Len(q) - 1) :
               q[n].t = "open" /\ q[n + 1].t = "close" /\ q[n].tag = q[n + 1].tag } IN
  IF P = {} THEN q
  ELSE LET n == CHOOSE m \in P : TRUE IN
       Cancel(SubSeq(q, 1, n - 1) \o SubSeq(q, n + 2, Len(q)))
\* every open tag is closed by one close tag of its name, in stack order
ProperlyNested(src) == Cancel(TagsOf(src)) = << >>
\* the source is properly nested except that it ends inside open elements
EndsOpen(src) ==
  /\ Cancel(TagsOf(src)) # << >>
  /\ \A n \in 1..Len(Cancel(TagsOf(src))) : Cancel(TagsOf(src))[n].t = "open"
\* positions of the source that become nodes, in order
NodePositions ==
  SelectSeq([n \in 1..Len(templateSource) |-> n],
            LAMBDA n : templateSource[n].t \in {"open", "self", "text"})
\* the open tag that encloses position n of the source (0: none)
Enclosing(n) ==
  LET E == { m \in 1..(n - 1) :
               /\ templateSource[m].t = "open"
               /\ ProperlyNested(SubSeq(templateSource, m + 1, n - 1)) } IN
  IF E = {} THEN 0 ELSE CHOOSE m \in E : \A k \in E : k <= m

RECURSIVE PathFrom(_)
PathFrom(n) == IF n = "document" THEN << >> ELSE << n >> \o PathFrom(parentNode(n))
\* the elements on the way up from the target that have a delegated handler
\* for the type of the event
Handling ==
  SelectSeq(PathFrom(event.target),
            LAMBDA n : n \in SpreadElements
                       /\ tnDelegatedHandlers[n][event.type] # NoHandler)
\* those whose handler is to be invoked: up to the first that stops
ToInvoke ==
  LET S == { n \in 1..Len(Handling) :
               stopsPropagation(tnDelegatedHandlers[Handling[n]][event.type]) } IN
  IF S = {} THEN Handling
  ELSE SubSeq(Handling, 1, CHOOSE n \in S : \A m \in S : n <= m)
DelegatedCalls == SelectSeq(event.calls, LAMBDA k : k.by = "delegated")

\* C16: at every step of an event that has reached the document, the
\* delegated handlers invoked so far are, in order, those of the first elements on the way up
\* from the target that have one for the event type, none after one that
\* stopped propagation, and all of these when the walk has returned.
WalkInOrder ==
  /\ Len(DelegatedCalls) <= Len(ToInvoke)
  /\ \A n \in 1..Len(DelegatedCalls) :
       /\ DelegatedCalls[n].node = ToInvoke[n]
       /\ DelegatedCalls[n].handler = tnDelegatedHandlers[ToInvoke[n]][event.type]
  /\ event.phase = "done" => Len(DelegatedCalls) = Len(ToInvoke)
C16_DelegatedWalk ==
  [][(event' # event /\ event'.reached) => WalkInOrder']_vars
\* a click on the text in the button: button's handler stopped propagation
\* and the handler of parent was not invoked
C16_Witness ==
  /\ event.phase = "done" /\ event.reached /\ event.target = "text"
  /\ tnDelegatedHandlers["button"]["click"] = "g"
  /\ tnDelegatedHandlers["parent"]["click"] = "f"
  /\ Len(DelegatedCalls) = 1

\* C17: for an event name that is not delegated, once a function has been
\* spread under it on an element, the element's listener list for it is that
\* of the last such call alone, and an event invokes there that function
\* and no other.
C17_OneDirectListener ==
  /\ [](\A e \in SpreadElements, n \in EventNames \ delegatedEvents :
          lastDirect[e][n] # NoHandler => eventListeners[e][n] = << lastDirect[e][n] >>)
  /\ [][\A n \in (Len(event.calls) + 1)..Len(event'.calls) :
          (event'.calls[n].by = "direct" /\ event'.type \notin delegatedEvents)
            => (event'.calls[n].handler = lastDirect[event'.calls[n].node][event'.type]
                /\ Len(event'.calls) <= Len(event.calls) + 1)]_vars
\* the first handler was invoked by an event and has since been replaced
C17_Witness ==
  /\ event.phase = "done" /\ event.type = "mouseover"
  /\ event.calls = << [node |-> "button", handler |-> "f", by |-> "direct"] >>
  /\ eventListeners["button"]["mouseover"] = << "g" >>

PassInvokes(c) ==
  /\ Running /\ Top.kind = "notify"
  /\ Len(stack') = Len(stack) + 1
  /\ stack'[Len(stack')].kind = "exec"
  /\ stack'[Len(stack')].comp = c
\* subscribers of the source of the pass that were not when it started
Late(f) == Range(subscribers[f.src]) \ Range(f.queue)

\* C19: a notification pass invokes only computations that were subscribers
\* of the source when the write started: one that became a subscriber during
\* the pass is not invoked by it, is a subscriber when the pass returns, and
\* so is in the snapshot of the next write to the source.
C19_SnapshotNotification ==
  /\ [][\A c \in Comps :
         PassInvokes(c) => c \in Range(Top.queue) /\ c \notin Late(Top)]_vars
  /\ [][(Idle /\ stack' # << >> /\ stack'[1].kind = "notify")
         => stack'[1].queue = subscribers[stack'[1].src]]_vars
\* the pass of t is about to return; g subscribed to t during it, in an
\* execution begun by the pass of s that p's write started, and was executed
\* once
C19_Witness ==
  /\ Running /\ Len(stack) = 1 /\ Top.kind = "notify" /\ Top.src = "t"
  /\ Top.queue = << "p" >> /\ Top.i > Len(Top.queue)
  /\ Late(Top) = {"g"}
  /\ obs.log = << "p", "g" >>

\* ------------------------------------------------------ dependency sets
\* the sources c has read, tracked, since its latest execution began
SeenSources(c) == { obs.seen[c][i][1] : i \in 1..Len(obs.seen[c]) }
\* a notification pass is entered
NewPass ==
  /\ stack' # << >> /\ stack'[Len(stack')].kind = "notify"
  /\ Len(stack') > Len(stack) \/ Top.kind = "exec"

\* C20 as stated: when the body of an execution has returned, the dependency
\* set of the computation is exactly the set of sources that execution read.
C20_DepsAreReadsOfTheRun ==
  (Running /\ Top.kind = "exec" /\ Top.pc > Len(Body(Top.comp)))
    => Range(deps[Top.comp]) = Top.reads

\* C20 amended: the dependency set of a computation is at all times the set
\* of sources it has read, tracked, since its latest execution began, and it
\* is a subscriber of exactly these; a write to any other source does not
\* hold it in its snapshot.  For an execution that is not re-entered these
\* are the sources that execution read.
C20_DepsAreReadsSinceLatestRun ==
  /\ [](\A c \in Comps :
          /\ Range(deps[c]) = SeenSources(c)
          /\ \A x \in Sources : c \in Range(subscribers[x]) <=> x \in Range(deps[c]))
  /\ [](\A n \in 1..Len(stack) :
          (stack[n].kind = "exec" /\ ~stack[n].old /\ ~exc)
            => Range(deps[stack[n].comp]) = stack[n].reads)
  /\ [][NewPass => \A c \in Range(stack'[Len(stack')].queue) :
                     stack'[Len(stack')].src \in SeenSources(c)]_vars
\* g has read t in an earlier run and not in its latest one, and t is
\* written: g is not in the snapshot
C20_Witness ==
  /\ prog = {"p", "g"} /\ obs.op = "write" /\ obs.src = "t"
  /\ Running /\ Len(stack) = 1 /\ Top.kind = "notify" /\ Top.i = 1
  /\ Top.queue = << "p" >>
  /\ value["s"] = 0
  /\ deps["g"] = << "s" >>

\* ------------------------------------------------------- bodies that throw
ExecFrames == { n \in 1..Len(stack) : stack[n].kind = "exec" }
Innermost == stack[CHOOSE n \in ExecFrames : \A m \in ExecFrames : m <= n]
\* the computation a read made now belongs to, as the call stack tells: the
\* one whose body is running innermost, none inside its untrack, none when no
\* body is running
Attributed ==
  IF ExecFrames = {} THEN NoComp
  ELSE IF Innermost.fin # << >> THEN NoComp ELSE Innermost.comp

\* C21: an exception thrown by a body leaves every active call, no further
\* statement being executed, until it reaches the top-level caller, and at
\* every point currentComputation is the computation whose body is then
\* innermost (none at top level): each execution left by the exception has
\* put back the value the pointer had before it.
C21_ThrowRestoresPointer ==
  /\ [](currentComputation = Attributed)
  /\ [][exc => \/ exc' /\ Len(stack') <= Len(stack) /\ stack' # stack
               \/ ~exc' /\ stack = << >> /\ stack' = << >> /\ obs'.threw]_vars
\* x threw in an execution started by the write of p, itself executed by a
\* top-level write of t; the exception has reached that caller
C21_Witness ==
  /\ Idle /\ obs.threw /\ obs.op = "write" /\ obs.src = "t"
  /\ obs.log = << "p", "x" >>
  /\ currentComputation = NoComp

\* ------------------------------------------------ mismatched closing tags
\* the tag names the message of the thrown Error contains
NamesReported == IF perr = NoError THEN {} ELSE {perr.tag}

\* C22: when a closing tag does not match the innermost open element,
\* parseTemplate throws, returns no tree, and the Error reports the name of
\* the closing tag and the name of the open element.
C22_MismatchReportsBothTags ==
  (perr # NoError /\ index <= Len(templateSource)
     /\ templateSource[index].t = "close")
    => /\ ~parsed
       /\ templateSource[index].tag \in NamesReported
       /\ tagStack # << >> => root[tagStack[Len(tagStack)]].tag \in NamesReported

\* ---------------------------------------------- classification of attributes
\* the category of an attribute name: the first rule that matches it
Category(name) ==
  CASE name = << "tn-if" >> -> "if"
    [] name = << "tn-for" >> -> "for"
    [] OTHER -> IF name[1] = ":" THEN "binding"
                ELSE IF name[1] = "@" THEN "event" ELSE "static"
\* the positions in node.attrs of the attributes of a category, in order
RECURSIVE PositionsFrom(_, _)
PositionsFrom(cat, n) ==
  IF n > Len(tf.attrs) THEN << >>
  ELSE (IF Category(tf.attrs[n].name) = cat THEN << n >> ELSE << >>)
         \o PositionsFrom(cat, n + 1)
Positions(cat) == PositionsFrom(cat, 1)
\* the list of a category holds the attributes at these positions, in order
ListHolds(list, cat) ==
  /\ Len(list) = Len(Positions(cat))
  /\ \A n \in 1..Len(list) :
       LET attr == tf.attrs[Positions(cat)[n]] IN
       IF cat = "static" THEN list[n] = [name |-> attr.name, value |-> attr.value]
       ELSE list[n] = [name |-> Tail(attr.name), expression |-> attr.value]
ListsHold ==
  /\ ListHolds(tf.attributes, "static")
  /\ ListHolds(tf.bindings, "binding")
  /\ ListHolds(tf.events, "event")

\* C23 as stated: in the element transformNode returns, every raw attribute
\* is in the category of the first rule its name matches and in no other,
\* none is dropped, and each list is in source order.
C23_EveryAttributeInOneCategory ==
  tf.returned =>
    /\ ListsHold
    /\ \A n \in 1..Len(tf.attrs) :
         /\ Category(tf.attrs[n].name) = "if" => tf.directives.if = tf.attrs[n].value
         /\ Category(tf.attrs[n].name) = "for" => tf.directives.for = tf.attrs[n].value
    /\ Positions("if") = << >> => tf.directives.if = NoDirective
    /\ Positions("for") = << >> => tf.directives.for = NoDirective

\* C23 amended: as stated for bindings, events and static attributes; the
\* directives hold the value of the last tn-if and of the last tn-for
\* attribute of the element, the earlier ones being dropped.
C23_LastDirectiveKept ==
  tf.returned =>
    /\ ListsHold
    /\ tf.directives.if =
         IF Positions("if") = << >> THEN NoDirective
         ELSE tf.attrs[Positions("if")[Len(Positions("if"))]].value
    /\ tf.directives.for =
         IF Positions("for") = << >> THEN NoDirective
         ELSE tf.attrs[Positions("for")[Len(Positions("for"))]].value
\* <p :a="e" tn-if="f" b> has been transformed
C23_Witness ==
  /\ tf.returned /\ Len(tf.attrs) = 3
  /\ tf.bindings = << [name |-> << "a" >>, expression |-> "e"] >>
  /\ tf.directives.if = "f"
  /\ tf.attributes = << [name |-> << "b" >>, value |-> ""] >>

\* -------------------------------------------------------------- quiescence
\* C24: batchDepth is never negative and counts the batch calls that have
\* not returned; whenever a top-level call has returned or thrown and no
\* batch is open, batchDepth is 0, pendingComputations is empty and
\* currentComputation is none.
C24_QuiescentBetweenCalls ==
  /\ batchDepth >= 0
  /\ Idle => batchDepth = obs.open
  /\ (Idle /\ obs.open = 0) =>
       /\ batchDepth = 0
       /\ pendingComputations = << >>
       /\ currentComputation = NoComp
\* the outermost batch has been left by an exception thrown while its
\* pending computations x and y were flushed
C24_Witness ==
  /\ Idle /\ obs.open = 0 /\ obs.op = "batchExit" /\ obs.threw
  /\ Len(obs.prePending) = 2

\* ---------------------------------------------------- symmetric subscription
\* C25: whenever no body is running, a computation is among the subscribers
\* of a source exactly when the source is among its dependencies.
C25_SubscriptionSymmetric ==
  ExecFrames = {} =>
    \A c \in Comps, x \in Sources :
      c \in Range(subscribers[x]) <=> x \in Range(deps[c])
\* g subscribes to s and t, and x, whose body threw after reading s, to s
C25_Witness ==
  /\ Idle /\ obs.threw /\ prog = {"g", "x"}
  /\ deps["g"] = << "s", "t" >> /\ deps["x"] = << "s" >>
  /\ Range(subscribers["s"]) = {"g", "x"} /\ subscribers["t"] = << "g" >>

\* ------------------------------------------------- a throw during a flush
\* C26: an exception that reaches flushPending ends it: no computation
\* later in its snapshot is executed by this flush, and none of them is in
\* pendingComputations afterwards, so that a later batch exit without a
\* write finds nothing to run.
C26_ThrowEndsFlush ==
  /\ [][(exc /\ stack # << >> /\ Top.kind = "flush")
          => /\ stack' = Pop(stack)
             /\ obs'.flushed = obs.flushed
             /\ \A n \in Top.i..Len(Top.queue) :
                  Top.queue[n] \notin Range(pendingComputations')]_vars
  /\ []((Idle /\ obs.op = "batchExit" /\ obs.threw)
          => /\ pendingComputations = << >>
             /\ Len(obs.flushed) <= Len(obs.prePending)
             /\ \A n \in 1..Len(obs.flushed) : obs.flushed[n] = obs.prePending[n])
\* x and y were pending; x threw and y was not executed
C26_Witness ==
  /\ Idle /\ obs.op = "batchExit" /\ obs.threw
  /\ obs.prePending = << "x", "y" >> /\ obs.flushed = << "x" >>
  /\ obs.log = << "x" >>
  /\ pendingComputations = << >>

\* ------------------------------------- effects created by an effect's body
Inner == created \cap InnerEffects
\* C27: an effect created while the body of effect o runs is not torn down
\* when o runs again.  Whenever no body is running every such effect is
\* subscribed to its source t; after a write that changed t outside a batch
\* each of them was executed; and after any top-level call the subscribers
\* of t are one more per run of o during that call.
C27_InnerEffectsAccumulate ==
  (Idle /\ ~obs.threw) =>
    /\ \A q \in Inner : q \in Range(subscribers["t"]) /\ deps[q] = << "t" >>
    /\ (obs.op = "write" /\ obs.src = "t" /\ ~obs.same /\ obs.depth0 = 0)
         => \A q \in Inner : Count(obs.log, q) = 1
    /\ Len(subscribers["t"]) = obs.inner0 + Count(obs.log, "o")
\* o ran three times; a write of t then executed the three effects its runs
\* created
C27_Witness ==
  /\ Idle /\ prog = {"o"}
  /\ obs.op = "write" /\ obs.src = "t" /\ ~obs.same
  /\ Len(subscribers["t"]) = 3
  /\ Range(obs.log) = {"q1", "q2", "q3"}

\* ------------------------------------------------------------ termination
\* no body of the program writes a signal
WriteFree(p) ==
  \A c \in p : \A i \in 1..Len(Body(c)) : Body(c)[i].op \notin {"write", "writeNext"}
\* C28: in a program whose bodies write no signal every call into the
\* library returns.  An effect that on each run sets the signal it reads to
\* another value never returns once it runs outside a batch: each of its
\* executions starts a further one, up to any number of them.
C28_TerminatesUnlessBodiesWrite ==
  /\ (WriteFree(prog) /\ ~Idle) ~> Idle
  /\ \A n \in 1..(MaxRuns - 1) :
       (batchDepth = 0 /\ Runs(stack, "u") = n) ~> (Runs(stack, "u") = n + 1)
  /\ []((batchDepth = 0 /\ Runs(stack, "u") >= 1) => []~Idle)
\* executions of u started by the creation of u, nested as deep as the
\* model follows them
C28_Witness ==
  /\ prog = {"u"} /\ batchDepth = 0
  /\ Runs(stack, "u") = MaxRuns
  /\ obs.op = "create" /\ obs.wrote

\* ------------------------------------- delegated and direct registration
\* every delegated call of the event at an element follows the calls of the
\* direct listeners of that element for the type
DirectAlso ==
  \A k \in 1..Len(event.calls) :
    event.calls[k].by = "delegated" =>
      \A h \in Range(eventListeners[event.calls[k].node][event.type]) :
        \E j \in 1..(k - 1) :
          event.calls[j] = [node |-> event.calls[k].node, handler |-> h, by |-> "direct"]
\* C29: a spread call stores a delegated handler exactly when the event name
\* is in delegatedEvents at that moment, and then leaves the direct listeners
\* of the element as they are; otherwise it registers a direct listener and
\* leaves the delegated handlers.  An event that reaches the document's
\* listener invokes, at an element that has both, the direct listener and
\* the delegated handler.
C29_DelegatedAtSpreadTime ==
  [][/\ \A e \in SpreadElements, n \in EventNames :
          /\ tnDelegatedHandlers'[e][n] # tnDelegatedHandlers[e][n]
               => /\ n \in delegatedEvents
                  /\ eventListeners'[e] = eventListeners[e]
                  /\ directListeners'[e] = directListeners[e]
          /\ eventListeners'[e][n] # eventListeners[e][n]
               => /\ n \notin delegatedEvents
                  /\ tnDelegatedHandlers'[e] = tnDelegatedHandlers[e]
     /\ (event' # event /\ event'.reached) => DirectAlso']_vars
\* the button got a direct click listener before click was delegated and a
\* delegated handler after; one click on it called both
C29_Witness ==
  /\ event.phase = "done" /\ event.type = "click" /\ event.target = "button"
  /\ "click" \in delegatedEvents
  /\ eventListeners["button"]["click"] = << "f" >>
  /\ tnDelegatedHandlers["button"]["click"] = "f"
  /\ event.calls = << [node |-> "button", handler |-> "f", by |-> "direct"],
                      [node |-> "button", handler |-> "f", by |-> "delegated"] >>

\* ---------------------------------------- tn-if and tn-for on one element
\* C30: an element that carries tn-if and tn-for is compiled as the first
\* branch of a conditional chain only: the code has one 'tn-if' marker, one
\* effect and one test for it and no 'tn-for' marker and no loop, while a
\* tn-for element without a branch directive gets its marker and loop.
C30_IfWinsOverFor ==
  returned =>
    \A p \in AllPaths :
      Carries(p, "tn-for") =>
        IF Carries(p, "tn-if")
        THEN /\ Cardinality(LinesOf("marker", p)) = 1
             /\ Cardinality(LinesOf("effect", p)) = 1
             /\ \E n \in LinesOf("branch", p) : lines[n].dir = "if"
             /\ LinesOf("forMarker", p) = {} /\ LinesOf("forEffect", p) = {}
        ELSE ~IsBranch(p) =>
               /\ Cardinality(LinesOf("forMarker", p)) = 1
               /\ Cardinality(LinesOf("forEffect", p)) = 1
\* a template with a tn-if tn-for element followed by its tn-else, and a
\* tn-for element, has been compiled
C30_Witness ==
  /\ returned /\ Len(template) = 3
  /\ template[1].attrs = {"tn-if", "tn-for"}
  /\ template[2].attrs = {"tn-else"}
  /\ template[3].attrs = {"tn-for"}
  /\ LinesOf("marker", << 1 >>) # {}
  /\ LinesOf("forMarker", << 3 >>) # {}

====
